---- MODULE Spec2Model ----
(***************************************************************************)
(* A model of the dynamic query endpoint `get_related` of                  *)
(* api/core/mixins.py (RelatedQueryMixin), over the resource graph of      *)
(* api/core/models.py and the viewsets of api/core/views.py.               *)
(*                                                                         *)
(* Strings are sequences of tokens.  A token is a field name ("brand"),    *)
(* a separator (".", "__", ",", " ", "-"), a key prefix ("filter[",        *)
(* "fields[", "]") or, in a filter value, one character.  The string       *)
(* operations of the code (replace, split, strip, lower, join) are         *)
(* computed on these sequences.                                            *)
(*                                                                         *)
(* The query layer is a recorder: `queryset` holds what get_related hands  *)
(* to filter, select_related, prefetch_related, order_by and distinct.     *)
(* What the query layer itself makes of a lookup it cannot resolve is not  *)
(* modelled; the executor returns the stored rows of `Database`.           *)
(***************************************************************************)
EXTENDS Integers, Sequences, FiniteSets, TLC

DOT == "."
DUNDER == "__"
COMMA == ","
SPACE == " "
MINUS == "-"
CLOSE == "]"

\* ------------------------------------------------------------------------
\* Python string operations, on token sequences
\* ------------------------------------------------------------------------

\* str.replace(a, b) for one-token a and b
Replace(s, a, b) == [i \in 1..Len(s) |-> IF s[i] = a THEN b ELSE s[i]]

\* str.split(sep): the pieces between the occurrences of sep (always >= 1)
RECURSIVE Split(_, _)
Split(s, sep) ==
    IF \E i \in 1..Len(s) : s[i] = sep
    THEN LET i == CHOOSE k \in 1..Len(s) :
                    s[k] = sep /\ \A j \in 1..(k - 1) : s[j] # sep
         IN  <<SubSeq(s, 1, i - 1)>> \o Split(SubSeq(s, i + 1, Len(s)), sep)
    ELSE <<s>>

\* str.strip(): leading and trailing blanks removed
RECURSIVE LStrip(_)
LStrip(s) == IF s # <<>> /\ Head(s) = SPACE THEN LStrip(Tail(s)) ELSE s

RECURSIVE RStrip(_)
RStrip(s) ==
    IF s # <<>> /\ s[Len(s)] = SPACE THEN RStrip(SubSeq(s, 1, Len(s) - 1)) ELSE s

Strip(s) == RStrip(LStrip(s))

\* sep.join(parts)
RECURSIVE JoinWith(_, _)
JoinWith(parts, sep) ==
    IF parts = <<>> THEN <<>>
    ELSE IF Len(parts) = 1 THEN parts[1]
    ELSE parts[1] \o <<sep>> \o JoinWith(Tail(parts), sep)

\* [x for x in parts if x]
NonEmptyParts(parts) == SelectSeq(parts, LAMBDA p : p # <<>>)

\* list(dict.fromkeys(xs)): duplicates dropped, first occurrence kept
RECURSIVE DictFromKeys(_)
DictFromKeys(xs) ==
    IF xs = <<>> THEN <<>>
    ELSE LET init == DictFromKeys(SubSeq(xs, 1, Len(xs) - 1))
             last == xs[Len(xs)]
         IN  IF \E i \in 1..Len(init) : init[i] = last THEN init
             ELSE Append(init, last)

SeqToSet(xs) == {xs[i] : i \in 1..Len(xs)}

\* ------------------------------------------------------------------------
\* The resource type graph (models.py)
\* ------------------------------------------------------------------------

Scalar(t) == [kind |-> "scalar", type |-> t, to |-> "none", via |-> "none"]
ForeignKey(m) == [kind |-> "fk", type |-> "rel", to |-> m, via |-> "none"]
OneToOneField(m) == [kind |-> "o2o", type |-> "rel", to |-> m, via |-> "none"]
\* the reverse side of a ForeignKey / OneToOneField declared on model m as
\* field f with related_name = the key it is stored under
ManyToOneRel(m, f) == [kind |-> "rev_fk", type |-> "rel", to |-> m, via |-> f]
OneToOneRel(m, f) == [kind |-> "rev_o2o", type |-> "rel", to |-> m, via |-> f]

Brand ==
    [id |-> Scalar("uuid"), name |-> Scalar("char"),
     is_active |-> Scalar("bool"), created_at |-> Scalar("datetime"),
     products |-> ManyToOneRel("product", "brand")]

Category ==
    [id |-> Scalar("uuid"), name |-> Scalar("char"),
     is_active |-> Scalar("bool"), created_at |-> Scalar("datetime"),
     products |-> ManyToOneRel("product", "category")]

Product ==
    [id |-> Scalar("uuid"), name |-> Scalar("char"), sku |-> Scalar("char"),
     price |-> Scalar("decimal"), is_active |-> Scalar("bool"),
     created_at |-> Scalar("datetime"),
     brand |-> ForeignKey("brand"), category |-> ForeignKey("category"),
     stocks |-> ManyToOneRel("stock", "product"),
     order_items |-> ManyToOneRel("orderitem", "product")]

Warehouse ==
    [id |-> Scalar("uuid"), name |-> Scalar("char"), city |-> Scalar("char"),
     created_at |-> Scalar("datetime"),
     stocks |-> ManyToOneRel("stock", "warehouse")]

Stock ==
    [id |-> Scalar("uuid"), qty |-> Scalar("int"), reserved |-> Scalar("int"),
     updated_at |-> Scalar("datetime"),
     product |-> ForeignKey("product"), warehouse |-> ForeignKey("warehouse")]

Customer ==
    [id |-> Scalar("uuid"), full_name |-> Scalar("char"),
     email |-> Scalar("char"), created_at |-> Scalar("datetime"),
     orders |-> ManyToOneRel("order", "customer")]

Order ==
    [id |-> Scalar("uuid"), status |-> Scalar("char"),
     created_at |-> Scalar("datetime"), customer |-> ForeignKey("customer"),
     items |-> ManyToOneRel("orderitem", "order"),
     payment |-> OneToOneRel("payment", "order")]

OrderItem ==
    [id |-> Scalar("uuid"), qty |-> Scalar("int"),
     unit_price |-> Scalar("decimal"),
     order |-> ForeignKey("order"), product |-> ForeignKey("product")]

Payment ==
    [id |-> Scalar("uuid"), method |-> Scalar("char"),
     amount |-> Scalar("decimal"), status |-> Scalar("char"),
     created_at |-> Scalar("datetime"), order |-> OneToOneField("order")]

\* model_name -> declared fields and reverse relations (what _meta.get_field
\* resolves)
Models ==
    [brand |-> Brand, category |-> Category, product |-> Product,
     warehouse |-> Warehouse, stock |-> Stock, customer |-> Customer,
     order |-> Order, orderitem |-> OrderItem, payment |-> Payment]

ModelNames == DOMAIN Models

\* model._meta.get_field(name); a name is a string, here a token sequence
FieldExists(model, name) == Len(name) = 1 /\ name[1] \in DOMAIN Models[model]
GetField(model, name) == Models[model][name[1]]

\* the attributes of a field that the mixin reads
IsRelation(f) == f.kind # "scalar"
OneToMany(f) == f.kind = "rev_fk"
ManyToMany(f) == FALSE
RelatedModel(f) == f.to

\* ------------------------------------------------------------------------
\* The viewsets (views.py) and the mixin's configuration
\* ------------------------------------------------------------------------

\* "a.b.c" as it is written in related_allowed_joins
Dotted(names) == JoinWith([i \in 1..Len(names) |-> <<names[i]>>], DOT)

related_max_join_depth == 3

\* view name -> the model of its queryset and its related_allowed_joins.
\* "base" is the mixin as BaseViewSet inherits it, with the default
\* related_allowed_joins = () (here over Product's table); "deep" is a
\* further configuration of the mixin whose whitelist holds a path longer
\* than related_max_join_depth.  The other nine are the registered viewsets.
ViewSets ==
    [brands |-> [model |-> "brand", related_allowed_joins |-> <<
        Dotted(<<"products">>), Dotted(<<"products", "category">>),
        Dotted(<<"products", "order_items">>),
        Dotted(<<"products", "order_items", "order">>),
        Dotted(<<"products", "stocks">>),
        Dotted(<<"products", "stocks", "warehouse">>)>>],
     categories |-> [model |-> "category", related_allowed_joins |-> <<
        Dotted(<<"products">>), Dotted(<<"products", "brand">>),
        Dotted(<<"products", "order_items">>),
        Dotted(<<"products", "order_items", "order">>),
        Dotted(<<"products", "stocks">>),
        Dotted(<<"products", "stocks", "warehouse">>)>>],
     products |-> [model |-> "product", related_allowed_joins |-> <<
        Dotted(<<"brand">>), Dotted(<<"category">>), Dotted(<<"stocks">>),
        Dotted(<<"stocks", "warehouse">>), Dotted(<<"order_items">>),
        Dotted(<<"order_items", "order">>),
        Dotted(<<"order_items", "order", "customer">>),
        Dotted(<<"order_items", "order", "payment">>)>>],
     warehouses |-> [model |-> "warehouse", related_allowed_joins |-> <<
        Dotted(<<"stocks">>), Dotted(<<"stocks", "product">>),
        Dotted(<<"stocks", "product", "brand">>),
        Dotted(<<"stocks", "product", "category">>)>>],
     stocks |-> [model |-> "stock", related_allowed_joins |-> <<
        Dotted(<<"product">>), Dotted(<<"product", "brand">>),
        Dotted(<<"product", "category">>), Dotted(<<"warehouse">>)>>],
     customers |-> [model |-> "customer", related_allowed_joins |-> <<
        Dotted(<<"orders">>), Dotted(<<"orders", "payment">>),
        Dotted(<<"orders", "items">>),
        Dotted(<<"orders", "items", "product">>)>>],
     orders |-> [model |-> "order", related_allowed_joins |-> <<
        Dotted(<<"customer">>), Dotted(<<"payment">>), Dotted(<<"items">>),
        Dotted(<<"items", "product">>),
        Dotted(<<"items", "product", "brand">>),
        Dotted(<<"items", "product", "category">>)>>],
     orderitems |-> [model |-> "orderitem", related_allowed_joins |-> <<
        Dotted(<<"order">>), Dotted(<<"order", "customer">>),
        Dotted(<<"order", "payment">>), Dotted(<<"product">>),
        Dotted(<<"product", "brand">>), Dotted(<<"product", "category">>)>>],
     payments |-> [model |-> "payment", related_allowed_joins |-> <<
        Dotted(<<"order">>), Dotted(<<"order", "customer">>),
        Dotted(<<"order", "items">>),
        Dotted(<<"order", "items", "product">>)>>],
     base |-> [model |-> "product", related_allowed_joins |-> <<>>],
     deep |-> [model |-> "payment", related_allowed_joins |-> <<
        Dotted(<<"order">>), Dotted(<<"order", "customer">>),
        Dotted(<<"order", "items", "product", "brand">>)>>]]

ViewNames == DOMAIN ViewSets

\* ------------------------------------------------------------------------
\* request.query_params: an ordered multi-valued mapping, here a sequence of
\* [key, values] with distinct keys and at least one value per key
\* ------------------------------------------------------------------------

HasKey(qp, key) == \E i \in 1..Len(qp) : qp[i].key = key

\* QueryDict.getlist(key)
GetList(qp, key) ==
    IF HasKey(qp, key)
    THEN (CHOOSE e \in SeqToSet(qp) : e.key = key).values
    ELSE <<>>

\* QueryDict.get(key, default): the last value given for the key
Get(qp, key, default) ==
    LET vs == GetList(qp, key)
    IN  IF vs = <<>> THEN default ELSE vs[Len(vs)]

\* a Python dict: [key, value] pairs in insertion order; d[k] = v keeps the
\* place of a key that is already there
DictHas(d, k) == \E i \in 1..Len(d) : d[i].key = k
DictGet(d, k) == (CHOOSE e \in SeqToSet(d) : e.key = k).value
DictSet(d, k, v) ==
    IF DictHas(d, k)
    THEN [i \in 1..Len(d) |-> IF d[i].key = k THEN [key |-> k, value |-> v]
                                                ELSE d[i]]
    ELSE Append(d, [key |-> k, value |-> v])
DictKeys(d) == [i \in 1..Len(d) |-> d[i].key]

\* ------------------------------------------------------------------------
\* Join planner
\* ------------------------------------------------------------------------

\* entry.replace(".", "__"), split on "__", empty segments dropped
PathSegments(raw) == NonEmptyParts(Split(Replace(raw, DOT, DUNDER), DUNDER))

\* _get_allowed_join_paths: the whitelist as a set of segment tuples
GetAllowedJoinPaths(view) ==
    LET raws == ViewSets[view].related_allowed_joins
    IN  {PathSegments(raws[i]) : i \in 1..Len(raws)} \ {<<>>}

\* _get_relation_field: the relation `name` of `model`, or the ValueError
GetRelationField(model, name) ==
    IF ~FieldExists(model, name)
    THEN [err |-> "UnknownRelation", field |-> Scalar("none")]
    ELSE IF ~IsRelation(GetField(model, name))
    THEN [err |-> "NotARelation", field |-> Scalar("none")]
    ELSE [err |-> "none", field |-> GetField(model, name)]

\* the loop of _build_join_spec over the segments: stops at the first
\* segment that is no relation, else tells whether every hop is to-one.
\* WalkHop is the loop's body for the relation field r of the first
\* segment.
RECURSIVE WalkJoin(_, _, _)
\* WalkHop with the strategy decided by the hop at hand alone, earlier hops
\* forgotten
WalkHopLastOnly(r, segments, use_select_related) ==
    IF r.err # "none"
    THEN [err |-> r.err, use_select_related |-> use_select_related]
    ELSE WalkJoin(RelatedModel(r.field), Tail(segments),
                  ~(OneToMany(r.field) \/ ManyToMany(r.field)))

WalkHop(r, segments, use_select_related) ==
    IF r.err # "none"
    THEN [err |-> r.err, use_select_related |-> use_select_related]
    ELSE WalkJoin(RelatedModel(r.field), Tail(segments),
                  IF OneToMany(r.field) \/ ManyToMany(r.field)
                  THEN FALSE ELSE use_select_related)

WalkJoin(current_model, segments, use_select_related) ==
    IF segments = <<>>
    THEN [err |-> "none", use_select_related |-> use_select_related]
    ELSE WalkHop(GetRelationField(current_model, Head(segments)), segments,
                 use_select_related)

\* the depth test with the limit off by one
TooDeepOffByOne(segments) == Len(segments) > related_max_join_depth + 1

\* the depth test of _build_join_spec
TooDeep(segments) == Len(segments) > related_max_join_depth

\* the whitelist test satisfied by any prefix of a whitelisted path
NotAllowedUnlessPrefix(segments, allowed_paths) ==
    /\ allowed_paths # {}
    /\ ~\E w \in allowed_paths :
          Len(segments) <= Len(w) /\ SubSeq(w, 1, Len(segments)) = segments

\* the whitelist test of _build_join_spec
NotAllowed(segments, allowed_paths) ==
    allowed_paths # {} /\ segments \notin allowed_paths

NoJoinSpec ==
    [status |-> "none", err |-> "none", lookup |-> <<>>, segments |-> <<>>,
     use_select_related |-> TRUE]

JoinSpecError(err) == [NoJoinSpec EXCEPT !.status = "error", !.err = err]

\* _build_join_spec for the segments of an entry and the outcome `walk` of
\* its loop: status "none" is the None returned for an entry without
\* segments, "error" a raised ValueError
JoinSpecOf(segments, walk, allowed_paths) ==
    IF segments = <<>> THEN NoJoinSpec
    ELSE IF TooDeep(segments) THEN JoinSpecError("JoinTooDeep")
    ELSE IF NotAllowed(segments, allowed_paths)
    THEN JoinSpecError("JoinNotAllowed")
    ELSE IF walk.err # "none" THEN JoinSpecError(walk.err)
    ELSE [status |-> "ok", err |-> "none",
          lookup |-> JoinWith(segments, DUNDER), segments |-> segments,
          use_select_related |-> walk.use_select_related]

SegmentsJoinSpec(segments, base_model, allowed_paths) ==
    JoinSpecOf(segments, WalkJoin(base_model, segments, TRUE), allowed_paths)

\* _build_join_spec
BuildJoinSpec(entry, base_model, allowed_paths) ==
    SegmentsJoinSpec(PathSegments(entry), base_model, allowed_paths)

RECURSIVE InjectJoinPath(_, _)
\* an insertion that starts the subtree of its head anew (tree[head] = {})
\* where _inject_join_path keeps the one that is there (setdefault)
InjectJoinPathOverwriting(tree, segments) ==
    IF segments = <<>> THEN tree
    ELSE LET head == Head(segments)
             tail == Tail(segments)
             t1 == IF \E i \in 1..Len(tree) : tree[i].key = head
                   THEN tree
                   ELSE Append(tree, [key |-> head, sub |-> <<>>])
         IN  [i \in 1..Len(t1) |->
                IF t1[i].key = head
                THEN [key |-> head, sub |-> InjectJoinPath(<<>>, tail)]
                ELSE t1[i]]

\* _inject_join_path: the nested dict as a sequence of [key, sub] in
\* insertion order
InjectJoinPath(tree, segments) ==
    IF segments = <<>> THEN tree
    ELSE LET head == Head(segments)
             tail == Tail(segments)
             t1 == IF \E i \in 1..Len(tree) : tree[i].key = head
                   THEN tree
                   ELSE Append(tree, [key |-> head, sub |-> <<>>])
         IN  [i \in 1..Len(t1) |->
                IF t1[i].key = head /\ tail # <<>>
                THEN [key |-> head, sub |-> InjectJoinPath(t1[i].sub, tail)]
                ELSE t1[i]]

\* the models a join path passes through, in order (the loop that fills
\* included_models)
RECURSIVE ModelsAlong(_, _)
ModelsAfter(to, segments) == <<to>> \o ModelsAlong(to, Tail(segments))

ModelsAlong(current_model, segments) ==
    IF segments = <<>> THEN <<>>
    ELSE ModelsAfter(
            RelatedModel(GetRelationField(current_model, Head(segments)).field),
            segments)

\* included_models[k] = ... for each k of ks: a dict keyed by model name
RECURSIVE AddKeys(_, _)
AddKeys(keys, ks) ==
    IF ks = <<>> THEN keys
    ELSE AddKeys(IF Head(ks) \in SeqToSet(keys) THEN keys
                 ELSE Append(keys, Head(ks)), Tail(ks))

\* the items of the join values: split on ",", stripped, empties dropped
RECURSIVE JoinEntries(_)
JoinEntries(raw_values) ==
    IF raw_values = <<>> THEN <<>>
    ELSE LET items == Split(Head(raw_values), COMMA)
             stripped == [i \in 1..Len(items) |-> Strip(items[i])]
         IN  NonEmptyParts(stripped) \o JoinEntries(Tail(raw_values))

EmptyJoinResult(base_model) ==
    [err |-> "none", entry |-> <<>>, select_related |-> <<>>,
     prefetch_related |-> <<>>, join_tree |-> <<>>,
     included_models |-> <<base_model>>, applied_joins |-> <<>>]

\* what the loop of _parse_joins does with an accepted spec
AddJoin(acc, spec, base_model) ==
    [acc EXCEPT
       !.select_related =
           IF spec.use_select_related THEN Append(@, spec.lookup) ELSE @,
       !.prefetch_related =
           IF spec.use_select_related THEN @ ELSE Append(@, spec.lookup),
       !.join_tree = InjectJoinPath(@, spec.segments),
       !.applied_joins = Append(@, Replace(spec.lookup, DUNDER, DOT)),
       !.included_models = AddKeys(@, ModelsAlong(base_model, spec.segments))]

\* the loop of _parse_joins over the entries; a raised ValueError ends it.
\* JoinLoopBody is the loop's body for the spec of the first entry.
RECURSIVE JoinLoop(_, _, _, _)
JoinLoopBody(spec, entries, base_model, allowed_paths, acc) ==
    IF spec.status = "error"
    THEN [acc EXCEPT !.err = spec.err, !.entry = Head(entries)]
    ELSE JoinLoop(Tail(entries), base_model, allowed_paths,
                  IF spec.status = "none" THEN acc
                  ELSE AddJoin(acc, spec, base_model))

JoinLoop(entries, base_model, allowed_paths, acc) ==
    IF entries = <<>> THEN acc
    ELSE JoinLoopBody(BuildJoinSpec(Head(entries), base_model, allowed_paths),
                      entries, base_model, allowed_paths, acc)

\* _parse_joins without the refusal for resources with no whitelist
JoinsNeverDisabled(join_entries, allowed_paths) == FALSE

\* whether _parse_joins refuses every join: entries but no whitelist
JoinsDisabled(join_entries, allowed_paths) ==
    join_entries # <<>> /\ allowed_paths = {}

\* a return that hands the three lists over as the loop collected them
JoinParsingResultAsCollected(r) == r

\* the return of _parse_joins: the three lists without duplicates
JoinParsingResult(r) ==
    IF r.err # "none" THEN r
    ELSE [r EXCEPT !.select_related = DictFromKeys(@),
                   !.prefetch_related = DictFromKeys(@),
                   !.applied_joins = DictFromKeys(@)]

EntriesParseJoins(join_entries, base_model, allowed_paths) ==
    IF JoinsDisabled(join_entries, allowed_paths)
    THEN [EmptyJoinResult(base_model) EXCEPT !.err = "JoinsDisabled"]
    ELSE JoinParsingResult(JoinLoop(join_entries, base_model, allowed_paths,
                                    EmptyJoinResult(base_model)))

\* _parse_joins: the _JoinParsingResult, or the ValueError (err, entry)
ParseJoins(qp, v) ==
    EntriesParseJoins(JoinEntries(GetList(qp, <<"join">>)),
                      ViewSets[v].model, GetAllowedJoinPaths(v))

\* ------------------------------------------------------------------------
\* Python values and the parsers of filter values
\* ------------------------------------------------------------------------

PyStr(s) == [t |-> "str", v |-> s]
PyInt(n) == [t |-> "int", v |-> <<n>>]
PyBool(b) == [t |-> "bool", v |-> <<b>>]
PyFloat(lit) == [t |-> "float", v |-> lit]
PyDecimal(lit) == [t |-> "decimal", v |-> lit]
PyDateTime(lit) == [t |-> "datetime", v |-> lit]
PyUuid(lit) == [t |-> "uuid", v |-> lit]
PyList(items) == [t |-> "list", v |-> items]

\* one token each for a well-formed UUID and a well-formed ISO date
UUID_LITERAL == "7f9c24e8-3b12-4fef-91e0-5a6c1d2b3e4f"
DATE_LITERAL == "2024-01-01"

UpperToLower ==
    [T |-> "t", R |-> "r", U |-> "u", E |-> "e", F |-> "f", A |-> "a",
     L |-> "l", S |-> "s", Y |-> "y", O |-> "o", N |-> "n",
     Product |-> "product", Brand |-> "brand", OrderItem |-> "orderitem"]

\* str.lower()
Lower(s) ==
    [i \in 1..Len(s) |->
        IF s[i] \in DOMAIN UpperToLower THEN UpperToLower[s[i]] ELSE s[i]]

DigitValue ==
    ("0" :> 0) @@ ("1" :> 1) @@ ("2" :> 2) @@ ("3" :> 3) @@ ("4" :> 4) @@
    ("5" :> 5) @@ ("6" :> 6) @@ ("7" :> 7) @@ ("8" :> 8) @@ ("9" :> 9)

IsDigits(s) == s # <<>> /\ \A i \in 1..Len(s) : s[i] \in DOMAIN DigitValue

HasSign(s) == s # <<>> /\ s[1] \in {"+", "-"}
Unsigned(s) == IF HasSign(s) THEN Tail(s) ELSE s

RECURSIVE DigitsValue(_)
DigitsValue(s) ==
    IF s = <<>> THEN 0
    ELSE 10 * DigitsValue(SubSeq(s, 1, Len(s) - 1)) + DigitValue[s[Len(s)]]

\* int(value) of a str: blanks around, an optional sign, decimal digits
IsIntLiteral(s) == IsDigits(Unsigned(Strip(s)))
IntOf(s) ==
    LET body == Strip(s)
    IN  IF body[1] = "-" THEN 0 - DigitsValue(Tail(body))
        ELSE DigitsValue(Unsigned(body))

\* digits with at most one point and at least one digit
IsPointNumber(s) ==
    LET parts == Split(s, DOT)
    IN  /\ Len(parts) <= 2
        /\ \A i \in 1..Len(parts) : parts[i] = <<>> \/ IsDigits(parts[i])
        /\ \E i \in 1..Len(parts) : parts[i] # <<>>

\* a finite decimal numeral: [sign] digits[.digits][e[sign]digits]
IsFiniteNumeral(s) ==
    LET body == Lower(Unsigned(Strip(s)))
        parts == Split(body, "e")
    IN  \/ Len(parts) = 1 /\ IsPointNumber(parts[1])
        \/ /\ Len(parts) = 2
           /\ IsPointNumber(parts[1])
           /\ IsDigits(Unsigned(parts[2]))

\* float(value) of a str: a finite numeral, or inf / infinity / nan
IsFloatLiteral(s) ==
    \/ IsFiniteNumeral(s)
    \/ Lower(Unsigned(Strip(s))) \in
          {<<"i", "n", "f">>, <<"n", "a", "n">>,
           <<"i", "n", "f", "i", "n", "i", "t", "y">>}

\* Field.to_python of the target field's class, by the semantic type of
\* the model field: UUIDField, CharField / EmailField, BooleanField,
\* DateTimeField, DecimalField, PositiveIntegerField.  ok = FALSE is the
\* ValidationError the parser raises.
ToPython(type, value) ==
    CASE type = "char" -> [ok |-> TRUE, val |-> PyStr(value)]
      [] type = "int" ->
            IF IsIntLiteral(value)
            THEN [ok |-> TRUE, val |-> PyInt(IntOf(value))]
            ELSE [ok |-> FALSE, val |-> PyStr(value)]
      [] type = "decimal" ->
            IF IsFiniteNumeral(value)
            THEN [ok |-> TRUE, val |-> PyDecimal(Strip(value))]
            ELSE [ok |-> FALSE, val |-> PyStr(value)]
      [] type = "bool" ->
            IF value \in {<<"t">>, <<"T", "r", "u", "e">>, <<"1">>}
            THEN [ok |-> TRUE, val |-> PyBool(TRUE)]
            ELSE IF value \in {<<"f">>, <<"F", "a", "l", "s", "e">>, <<"0">>}
            THEN [ok |-> TRUE, val |-> PyBool(FALSE)]
            ELSE [ok |-> FALSE, val |-> PyStr(value)]
      [] type = "datetime" ->
            IF value = <<DATE_LITERAL>>
            THEN [ok |-> TRUE, val |-> PyDateTime(value)]
            ELSE [ok |-> FALSE, val |-> PyStr(value)]
      [] type = "uuid" ->
            IF value = <<UUID_LITERAL>>
            THEN [ok |-> TRUE, val |-> PyUuid(value)]
            ELSE [ok |-> FALSE, val |-> PyStr(value)]

\* field.target_field of a ForeignKey / OneToOneField: the related model's
\* primary key; a plain field is its own target
TargetField(field) ==
    IF field.kind \in {"fk", "o2o"} THEN Models[field.to].id ELSE field

\* the literals the fallback takes for booleans
BooleanLiterals == {<<"t", "r", "u", "e">>, <<"f", "a", "l", "s", "e">>}

\* the except branch with yes / no / on / off taken for booleans too
CoerceFallbackSixLiterals(value) ==
    LET lowered == Lower(Strip(value))
    IN  IF lowered \in BooleanLiterals \cup {<<"y", "e", "s">>, <<"o", "n">>}
        THEN PyBool(TRUE)
        ELSE IF lowered \in {<<"n", "o">>, <<"o", "f", "f">>}
        THEN PyBool(FALSE)
        ELSE IF IsIntLiteral(value) THEN PyInt(IntOf(value))
        ELSE IF IsFloatLiteral(value) THEN PyFloat(Strip(value))
        ELSE PyStr(value)

\* the except branch of _coerce_filter_value
CoerceFallback(value) ==
    LET lowered == Lower(Strip(value))
    IN  IF lowered \in BooleanLiterals
        THEN PyBool(lowered = <<"t", "r", "u", "e">>)
        ELSE IF IsIntLiteral(value) THEN PyInt(IntOf(value))
        ELSE IF IsFloatLiteral(value) THEN PyFloat(Strip(value))
        ELSE PyStr(value)

\* _coerce_filter_value that hands the raw string on
CoerceFilterValueRaw(value, field) == PyStr(value)

\* _coerce_filter_value, for the field _resolve_lookup returned
CoerceFilterValue(value, field) ==
    LET parsed == ToPython(TargetField(field).type, value)
    IN  IF parsed.ok THEN parsed.val ELSE CoerceFallback(value)

\* ------------------------------------------------------------------------
\* Filter parser
\* ------------------------------------------------------------------------

\* getattr(candidate, "field", candidate): a reverse relation gives the
\* forward field that declares it
ActualField(candidate) ==
    IF candidate.kind \in {"rev_fk", "rev_o2o"}
    THEN Models[candidate.to][candidate.via]
    ELSE candidate

\* the loop of _resolve_lookup from segment `index` on.  `field` is the
\* last field found (found = FALSE: None).
RECURSIVE ResolveLoop(_, _, _, _, _)
ResolveLoop(model, segments, index, found, field) ==
    IF index > Len(segments)
    THEN [err |-> "none", field |-> field, has_operator |-> FALSE,
          operator |-> <<>>]
    ELSE IF ~FieldExists(model, segments[index])
    THEN IF ~found
         THEN [err |-> "InvalidFilterPath", field |-> field,
               has_operator |-> FALSE, operator |-> <<>>]
         ELSE [err |-> "none", field |-> field, has_operator |-> TRUE,
               operator |->
                   JoinWith(SubSeq(segments, index, Len(segments)), DUNDER)]
    ELSE ResolveLoop(IF IsRelation(GetField(model, segments[index]))
                     THEN RelatedModel(GetField(model, segments[index]))
                     ELSE model,
                     segments, index + 1, TRUE,
                     ActualField(GetField(model, segments[index])))

\* _resolve_lookup that refuses an unknown segment wherever it stands
SegmentsResolveLookupStrict(base_model, segments) ==
    IF segments = <<>>
    THEN [err |-> "EmptyLookup", field |-> Scalar("none"),
          has_operator |-> FALSE, operator |-> <<>>]
    ELSE IF ResolveLoop(base_model, segments, 1, FALSE,
                        Scalar("none")).has_operator
    THEN [err |-> "InvalidFilterPath", field |-> Scalar("none"),
          has_operator |-> FALSE, operator |-> <<>>]
    ELSE ResolveLoop(base_model, segments, 1, FALSE, Scalar("none"))

SegmentsResolveLookup(base_model, segments) ==
    IF segments = <<>>
    THEN [err |-> "EmptyLookup", field |-> Scalar("none"),
          has_operator |-> FALSE, operator |-> <<>>]
    ELSE ResolveLoop(base_model, segments, 1, FALSE, Scalar("none"))

\* _resolve_lookup: (field, operator), or the ValueError
ResolveLookup(base_model, lookup) ==
    SegmentsResolveLookup(base_model, NonEmptyParts(Split(lookup, DUNDER)))

\* key.startswith(prefix) and key.endswith("]")
IsBracketKey(key, prefix) ==
    key # <<>> /\ key[1] = prefix /\ key[Len(key)] = CLOSE

\* key[len(prefix):-1]
Bracketed(key) == SubSeq(key, 2, Len(key) - 1)

\* the lookup of a filter key
FilterLookup(key) == Strip(Replace(Bracketed(key), DOT, DUNDER))

\* the term of a key read the way QueryDict.get reads it: the last value
CoercedTermLastValue(lookup, coerced_values, has_operator) ==
    [key |-> lookup, value |-> coerced_values[Len(coerced_values)]]

\* the (key, value) one filter key writes into `filters` and `applied`
CoercedTerm(lookup, coerced_values, has_operator) ==
    IF Len(coerced_values) > 1 /\ ~has_operator
    THEN [key |-> lookup \o <<DUNDER, "in">>, value |-> PyList(coerced_values)]
    ELSE IF Len(coerced_values) = 1
    THEN [key |-> lookup, value |-> coerced_values[1]]
    ELSE [key |-> lookup, value |-> PyList(coerced_values)]

FilterTerm(lookup, values, field, has_operator) ==
    CoercedTerm(lookup,
                [i \in 1..Len(values) |-> CoerceFilterValue(values[i], field)],
                has_operator)

\* a loop body that hands the term to the query and does not record it
AddTermUnrecorded(acc, term) ==
    [acc EXCEPT !.filters = DictSet(@, term.key, term.value)]

\* filters[k] = v and applied[k] = v
AddTerm(acc, term) ==
    [acc EXCEPT !.filters = DictSet(@, term.key, term.value),
                !.applied = DictSet(@, term.key, term.value)]

\* the loop of _parse_filters over query_params.lists(); a raised
\* ValueError ends it.  FilterLoopBody is the loop's body for a filter key
\* with a lookup, resolved to r.
RECURSIVE FilterLoop(_, _, _)
FilterLoopBody(r, lookup, qp, base_model, acc) ==
    IF r.err # "none"
    THEN [acc EXCEPT !.err = r.err, !.key = Head(qp).key]
    ELSE FilterLoop(Tail(qp), base_model,
                    AddTerm(acc, FilterTerm(lookup, Head(qp).values, r.field,
                                            r.has_operator)))

FilterLoopKey(lookup, qp, base_model, acc) ==
    IF ~IsBracketKey(Head(qp).key, "filter[") \/ lookup = <<>>
    THEN FilterLoop(Tail(qp), base_model, acc)
    ELSE FilterLoopBody(ResolveLookup(base_model, lookup), lookup, qp,
                        base_model, acc)

FilterLoop(qp, base_model, acc) ==
    IF qp = <<>> THEN acc
    ELSE FilterLoopKey(FilterLookup(Head(qp).key), qp, base_model, acc)

\* _parse_filters: (filters, applied), or the ValueError (err, key)
ParseFilters(qp, base_model) ==
    FilterLoop(qp, base_model,
               [err |-> "none", key |-> <<>>, filters |-> <<>>,
                applied |-> <<>>])

\* ------------------------------------------------------------------------
\* Ordering / distinct parser
\* ------------------------------------------------------------------------

\* the loop of _parse_ordering over the chunks of raw.split(",").
\* OrderingLoopBody is the loop's body for a chunk with a lookup, resolved
\* to r.
RECURSIVE OrderingLoop(_, _, _)
\* a loop body whose echo drops the sign
OrderingLoopBodyUnsignedEcho(r, prefix, lookup, chunks, base_model, acc) ==
    IF r.err # "none"
    THEN [acc EXCEPT !.err = r.err, !.chunk = Strip(Head(chunks))]
    ELSE OrderingLoop(Tail(chunks), base_model,
           [acc EXCEPT
              !.ordering_fields = Append(@, prefix \o lookup),
              !.ordering_meta = Append(@, Replace(lookup, DUNDER, DOT))])

OrderingLoopBody(r, prefix, lookup, chunks, base_model, acc) ==
    IF r.err # "none"
    THEN [acc EXCEPT !.err = r.err, !.chunk = Strip(Head(chunks))]
    ELSE OrderingLoop(Tail(chunks), base_model,
           [acc EXCEPT
              !.ordering_fields = Append(@, prefix \o lookup),
              !.ordering_meta =
                  Append(@, prefix \o Replace(lookup, DUNDER, DOT))])

OrderingLoopChunk(descending, lookup, chunks, base_model, acc) ==
    IF lookup = <<>>
    THEN OrderingLoop(Tail(chunks), base_model, acc)
    ELSE OrderingLoopBody(ResolveLookup(base_model, lookup),
                          IF descending THEN <<MINUS>> ELSE <<>>,
                          lookup, chunks, base_model, acc)

\* chunk.startswith("-")
Descending(chunk) == chunk # <<>> /\ chunk[1] = MINUS

\* the lookup of an ordering chunk
OrderingLookup(chunk) ==
    Strip(Replace(IF Descending(chunk) THEN Tail(chunk) ELSE chunk,
                  DOT, DUNDER))

OrderingLoop(chunks, base_model, acc) ==
    IF chunks = <<>> THEN acc
    ELSE OrderingLoopChunk(Descending(Strip(Head(chunks))),
                           OrderingLookup(Strip(Head(chunks))),
                           chunks, base_model, acc)

\* _parse_ordering: (ordering_fields, ordering_meta), or the ValueError
ParseOrdering(qp, base_model) ==
    LET raw == Get(qp, <<"ordering">>, <<>>)
        none == [err |-> "none", chunk |-> <<>>, ordering_fields |-> <<>>,
                 ordering_meta |-> <<>>]
    IN  IF raw = <<>> THEN none
        ELSE OrderingLoop(Split(raw, COMMA), base_model, none)

TruthyLiterals ==
    {<<"1">>, <<"t", "r", "u", "e">>, <<"y", "e", "s">>, <<"o", "n">>}

\* a distinct flag that reads the value as it is written
ParseDistinctAsWritten(qp) ==
    /\ HasKey(qp, <<"distinct">>)
    /\ Get(qp, <<"distinct">>, <<>>) \in TruthyLiterals

\* _parse_distinct
ParseDistinct(qp) ==
    /\ HasKey(qp, <<"distinct">>)
    /\ Lower(Strip(Get(qp, <<"distinct">>, <<>>))) \in TruthyLiterals

\* ------------------------------------------------------------------------
\* Field selector
\* ------------------------------------------------------------------------

\* the names of one fields[...] key: every value split on ",", stripped,
\* empties dropped
RECURSIVE FieldItems(_)
FieldItems(values) ==
    IF values = <<>> THEN <<>>
    ELSE LET items == Split(Head(values), COMMA)
             stripped == [i \in 1..Len(items) |-> Strip(items[i])]
         IN  NonEmptyParts(stripped) \o FieldItems(Tail(values))

\* a model label that keeps the case of its letters
FieldsLabelCaseSensitive(key) == Strip(Bracketed(key))

\* the model label of a fields[...] key
FieldsLabel(key) == Lower(Strip(Bracketed(key)))

\* the loop of _parse_fields over query_params.lists(); included_models
\* is the sequence of the model names that are its keys
RECURSIVE FieldsLoop(_, _, _)
FieldsLoop(qp, included_models, acc) ==
    IF qp = <<>> THEN acc
    ELSE LET key == Head(qp).key
             model_label == FieldsLabel(key)
             fields == FieldItems(Head(qp).values)
             unknown == {i \in 1..Len(fields) :
                            ~FieldExists(model_label[1], fields[i])}
         IN  IF \/ ~IsBracketKey(key, "fields[")
                \/ Len(model_label) # 1
                \/ model_label[1] \notin SeqToSet(included_models)
             THEN FieldsLoop(Tail(qp), included_models, acc)
             ELSE IF unknown # {}
             THEN [acc EXCEPT !.err = "UnknownField", !.key = key]
             ELSE FieldsLoop(Tail(qp), included_models,
                    IF fields = <<>> THEN acc
                    ELSE [acc EXCEPT
                            !.field_map = DictSet(@, model_label[1], fields)])

\* _parse_fields: the field map, or the ValueError (err, key)
ParseFields(qp, included_models) ==
    FieldsLoop(qp, included_models,
               [err |-> "none", key |-> <<>>, field_map |-> <<>>])

\* selected fields reported for the types with a selection only
BuildSelectedFieldsMetaGivenOnly(included_models, field_map) == field_map

\* _build_selected_fields_meta
BuildSelectedFieldsMeta(included_models, field_map) ==
    [i \in 1..Len(included_models) |->
        [key |-> included_models[i],
         value |-> IF DictHas(field_map, included_models[i])
                   THEN DictGet(field_map, included_models[i])
                   ELSE <<(<<"*">>)>>]]

\* ------------------------------------------------------------------------
\* Stored instances (the query executor's side) and the tree serializer
\* ------------------------------------------------------------------------

\* model._meta.fields: the concrete fields in declaration order
ConcreteFields ==
    [brand |-> <<"id", "name", "is_active", "created_at">>,
     category |-> <<"id", "name", "is_active", "created_at">>,
     product |-> <<"id", "name", "sku", "price", "is_active", "created_at",
                   "brand", "category">>,
     warehouse |-> <<"id", "name", "city", "created_at">>,
     stock |-> <<"id", "qty", "reserved", "updated_at", "product",
                 "warehouse">>,
     customer |-> <<"id", "full_name", "email", "created_at">>,
     order |-> <<"id", "status", "created_at", "customer">>,
     orderitem |-> <<"id", "qty", "unit_price", "order", "product">>,
     payment |-> <<"id", "method", "amount", "status", "created_at",
                   "order">>]

\* the rows the tables hold while requests are served: primary key and the
\* foreign keys of each row ("null": no related row)
Database ==
    [brand |-> <<[pk |-> "b1"]>>,
     category |-> <<[pk |-> "c1"]>>,
     product |-> <<[pk |-> "p1", brand |-> "b1", category |-> "c1"],
                   [pk |-> "p2", brand |-> "b1", category |-> "c1"]>>,
     warehouse |-> <<[pk |-> "w1"]>>,
     stock |-> <<[pk |-> "s1", product |-> "p1", warehouse |-> "w1"]>>,
     customer |-> <<[pk |-> "u1"], [pk |-> "u2"]>>,
     order |-> <<[pk |-> "o1", customer |-> "u1"],
                 [pk |-> "o2", customer |-> "u1"]>>,
     orderitem |-> <<[pk |-> "i1", order |-> "o1", product |-> "p1"],
                     [pk |-> "i2", order |-> "o1", product |-> "p2"]>>,
     payment |-> <<[pk |-> "y1", order |-> "o1"],
                   [pk |-> "y2", order |-> "null"]>>]

PyNone == [t |-> "none", v |-> <<>>]
PyModel(model, pk) == [t |-> "model", v |-> <<model, pk>>]
PyManager(model, pks) == [t |-> "manager", v |-> <<model>> \o pks]
PyDict(d) == [t |-> "dict", v |-> d]

Row(model, pk) == CHOOSE r \in SeqToSet(Database[model]) : r.pk = pk

\* the primary keys of the rows of `model` whose foreign key `via` is pk
RelatedPks(model, via, pk) ==
    LET rows == SelectSeq(Database[model], LAMBDA r : r[via] = pk)
    IN  [i \in 1..Len(rows) |-> rows[i].pk]

\* the stored value of a scalar field, by its semantic type
ScalarValue(type, pk) ==
    CASE type = "uuid" -> PyUuid(<<pk>>)
      [] type = "char" -> PyStr(<<"text">>)
      [] type = "int" -> PyInt(5)
      [] type = "decimal" -> PyDecimal(<<"1", "0", "0", ".", "0", "0">>)
      [] type = "bool" -> PyBool(TRUE)
      [] type = "datetime" -> PyDateTime(<<DATE_LITERAL>>)

\* getattr(instance, name, None) for a declared field or relation
GetAttr(model, pk, name) ==
    LET f == GetField(model, name)
    IN  CASE f.kind = "scalar" -> ScalarValue(f.type, pk)
          [] f.kind \in {"fk", "o2o"} ->
                IF Row(model, pk)[name[1]] = "null" THEN PyNone
                ELSE PyModel(f.to, Row(model, pk)[name[1]])
          [] f.kind = "rev_fk" -> PyManager(f.to, RelatedPks(f.to, f.via, pk))
          [] f.kind = "rev_o2o" ->
                IF RelatedPks(f.to, f.via, pk) = <<>> THEN PyNone
                ELSE PyModel(f.to, RelatedPks(f.to, f.via, pk)[1])

\* str(Decimal(lit)) of a plain numeral, or of digits with an exponent that
\* is not negative: no "+" in front, the exponent as "E+n"
DecimalStr(lit) ==
    LET body == IF lit # <<>> /\ lit[1] = "+" THEN Tail(lit) ELSE lit
        parts == Split(Lower(body), "e")
    IN  IF Len(parts) = 1 THEN body
        ELSE parts[1] \o <<"E", "+">> \o Unsigned(parts[2])

\* _serialize_value
SerializeValue(value) ==
    CASE value.t = "model" -> PyUuid(<<value.v[2]>>)
      [] value.t = "decimal" -> PyStr(DecimalStr(value.v))
      [] value.t = "datetime" -> PyStr(value.v \o <<"T00:00:00">>)
      [] OTHER -> value

\* an own layer that ignores the selection: every concrete field
OwnLayerEveryField(model, pk, names, payload) ==
    [i \in 1..Len(ConcreteFields[model]) |->
        [key |-> <<ConcreteFields[model][i]>>,
         value |-> SerializeValue(GetAttr(model, pk,
                                          <<ConcreteFields[model][i]>>))]]

\* the first loop of _serialize_instance: payload[name] for each selected
\* field
RECURSIVE OwnLayer(_, _, _, _)
OwnLayer(model, pk, names, payload) ==
    IF names = <<>> THEN payload
    ELSE OwnLayer(model, pk, Tail(names),
                  DictSet(payload, Head(names),
                          SerializeValue(GetAttr(model, pk, Head(names)))))

\* _serialize_instance, and its second loop over join_tree.items()
RECURSIVE SerializeInstance(_, _, _, _)
RECURSIVE RelationLayer(_, _, _, _, _)
\* a relation layer that serializes every relation as a single instance:
\* the first related row of a to-many relation, an empty object when there
\* is no related row
RelationLayerSingle(model, pk, join_tree, field_map, payload) ==
    IF join_tree = <<>> THEN payload
    ELSE LET related == RelatedPks(
                           GetField(model, Head(join_tree).key).to,
                           GetField(model, Head(join_tree).key).via, pk)
             forward == GetAttr(model, pk, Head(join_tree).key)
             target == IF GetField(model, Head(join_tree).key).kind
                            \in {"fk", "o2o"}
                       THEN (IF forward = PyNone THEN <<>>
                             ELSE <<forward.v[2]>>)
                       ELSE related
         IN  RelationLayer(model, pk, Tail(join_tree), field_map,
                DictSet(payload, Head(join_tree).key,
                    PyDict(IF target = <<>> THEN <<>>
                           ELSE SerializeInstance(target[1],
                                    GetField(model, Head(join_tree).key).to,
                                    Head(join_tree).sub, field_map))))

RelationLayer(model, pk, join_tree, field_map, payload) ==
    IF join_tree = <<>> THEN payload
    ELSE LET relation_name == Head(join_tree).key
             subtree == Head(join_tree).sub
             field == GetRelationField(model, relation_name).field
             related == GetAttr(model, pk, relation_name)
             children == SubSeq(related.v, 2, Len(related.v))
             value ==
                 IF OneToMany(field) \/ ManyToMany(field)
                 THEN PyList([i \in 1..Len(children) |->
                         PyDict(SerializeInstance(children[i],
                                    RelatedModel(field), subtree, field_map))])
                 ELSE IF related = PyNone THEN PyNone
                 ELSE PyDict(SerializeInstance(related.v[2],
                                RelatedModel(field), subtree, field_map))
         IN  RelationLayer(model, pk, Tail(join_tree), field_map,
                           DictSet(payload, relation_name, value))

\* a serializer whose default own layer holds the scalar fields only
SerializeInstanceScalarsOnly(pk, model, join_tree, field_map) ==
    RelationLayer(model, pk, join_tree, field_map,
        OwnLayer(model, pk,
            IF DictHas(field_map, model) /\ DictGet(field_map, model) # <<>>
            THEN DictGet(field_map, model)
            ELSE SelectSeq([i \in 1..Len(ConcreteFields[model]) |->
                               <<ConcreteFields[model][i]>>],
                           LAMBDA a : ~IsRelation(GetField(model, a))),
            <<>>))

SerializeInstance(pk, model, join_tree, field_map) ==
    LET selected_fields ==
            IF DictHas(field_map, model) /\ DictGet(field_map, model) # <<>>
            THEN DictGet(field_map, model)
            ELSE [i \in 1..Len(ConcreteFields[model]) |->
                     <<ConcreteFields[model][i]>>]
    IN  RelationLayer(model, pk, join_tree, field_map,
                      OwnLayer(model, pk, selected_fields, <<>>))

\* the applied filters as the response echoes them
SerializeFilters(applied) ==
    [i \in 1..Len(applied) |->
        [key |-> applied[i].key,
         value |-> IF applied[i].value.t = "list"
                   THEN PyList([j \in 1..Len(applied[i].value.v) |->
                                   SerializeValue(applied[i].value.v[j])])
                   ELSE SerializeValue(applied[i].value)]]

\* ------------------------------------------------------------------------
\* get_related, one request
\* ------------------------------------------------------------------------

VARIABLES
    view,             \* the viewset serving the request
    qp,               \* request.query_params
    pc,               \* where get_related stands
    queryset,         \* what has been applied to the queryset so far
    applied_filters,  \* _parse_filters' second result
    join_specs,       \* the _JoinParsingResult
    ordering_meta,    \* _parse_ordering's second result
    distinct,         \* _parse_distinct's result
    field_map,        \* _parse_fields' result
    page,             \* the page (or the whole result) and its objects
    response,         \* the Response, or the ValidationError raised
    peer,             \* the frame of a second get_related call that is
                      \* suspended while this one runs, if there is one
    stocks,           \* the rows of Stock written through StockSerializer
    payments,         \* the rows of Payment written through
                      \* PaymentSerializer
    outcome           \* the last serializer run: its input and its errors

vars == <<view, qp, pc, queryset, applied_filters, join_specs, ordering_meta,
          distinct, field_map, page, response, peer, stocks, payments,
          outcome>>

\* what the write serializers work on; get_related only reads
tables == <<stocks, payments, outcome>>

\* no serializer has run
NoOutcome ==
    [serializer |-> "none", instance |-> "none", partial |-> FALSE,
     data |-> <<>>, errors |-> {}]

\* no row has been written yet
NoWrites ==
    /\ stocks = {}
    /\ payments = {}
    /\ outcome = NoOutcome

base_model == ViewSets[view].model

NoResponse == [status |-> 0, error |-> "none", param |-> <<>>, body |-> <<>>]

\* raise ValidationError(str(exc)): a 400 response that names the parameter
ValidationError(kind, param) ==
    [status |-> 400, error |-> kind, param |-> param, body |-> <<>>]

NoPage == [paginated |-> FALSE, objects |-> <<>>, count |-> 0]

\* the local variables of a get_related call that is about to serve the
\* request q of the viewset v
NewFrame(v, q) ==
    [view |-> v, qp |-> q, pc |-> "filters",
     queryset |-> [filters |-> <<>>, select_related |-> <<>>,
                   prefetch_related |-> <<>>, order_by |-> <<>>,
                   distinct |-> FALSE, evaluated |-> FALSE],
     applied_filters |-> <<>>,
     join_specs |-> EmptyJoinResult(ViewSets[v].model),
     ordering_meta |-> <<>>, distinct |-> FALSE, field_map |-> <<>>,
     page |-> NoPage, response |-> NoResponse]

\* no second call
NoPeer == [NewFrame("base", <<>>) EXCEPT !.pc = "none"]

\* the state of a request that get_related is about to serve, alone
Start(v, q) ==
    /\ peer = NoPeer
    /\ NoWrites
    /\ view = v
    /\ qp = q
    /\ pc = "filters"
    /\ queryset = [filters |-> <<>>, select_related |-> <<>>,
                   prefetch_related |-> <<>>, order_by |-> <<>>,
                   distinct |-> FALSE, evaluated |-> FALSE]
    /\ applied_filters = <<>>
    /\ join_specs = EmptyJoinResult(ViewSets[v].model)
    /\ ordering_meta = <<>>
    /\ distinct = FALSE
    /\ field_map = <<>>
    /\ page = NoPage
    /\ response = NoResponse

\* get_related, lines 81-86, once _parse_filters has returned or raised r
FiltersParsed(r) ==
    IF r.err # "none"
    THEN /\ pc' = "error"
         /\ response' = ValidationError(r.err, r.key)
         /\ UNCHANGED <<queryset, applied_filters>>
    ELSE /\ pc' = "joins"
         /\ applied_filters' = r.applied
         /\ queryset' = [queryset EXCEPT !.filters = r.filters]
         /\ UNCHANGED response

\* get_related, lines 81-86: parse the filters and apply them
ParseFiltersStep ==
    /\ pc = "filters"
    /\ FiltersParsed(ParseFilters(qp, base_model))
    /\ UNCHANGED <<view, qp, join_specs, ordering_meta, distinct, field_map,
                   page, peer, tables>>

\* get_related, lines 88-95, once _parse_joins has returned or raised r
JoinsParsed(r) ==
    IF r.err # "none"
    THEN /\ pc' = "error"
         /\ response' = ValidationError(r.err, r.entry)
         /\ UNCHANGED <<queryset, join_specs>>
    ELSE /\ pc' = "ordering"
         /\ join_specs' = r
         /\ queryset' = [queryset EXCEPT
                           !.select_related = r.select_related,
                           !.prefetch_related = r.prefetch_related]
         /\ UNCHANGED response

\* get_related, lines 88-95: plan the joins and apply them
ParseJoinsStep ==
    /\ pc = "joins"
    /\ JoinsParsed(ParseJoins(qp, view))
    /\ UNCHANGED <<view, qp, applied_filters, ordering_meta, distinct,
                   field_map, page, peer, tables>>

\* get_related, lines 97-105, once _parse_ordering has returned or raised
\* r and _parse_distinct has returned d
OrderingParsed(r, d) ==
    IF r.err # "none"
    THEN /\ pc' = "error"
         /\ response' = ValidationError(r.err, r.chunk)
         /\ UNCHANGED <<queryset, ordering_meta, distinct>>
    ELSE /\ pc' = "fields"
         /\ ordering_meta' = r.ordering_meta
         /\ distinct' = d
         /\ queryset' = [queryset EXCEPT !.order_by = r.ordering_fields,
                                         !.distinct = d]
         /\ UNCHANGED response

\* get_related, lines 97-105: ordering and distinct
ParseOrderingStep ==
    /\ pc = "ordering"
    /\ OrderingParsed(ParseOrdering(qp, base_model), ParseDistinct(qp))
    /\ UNCHANGED <<view, qp, applied_filters, join_specs, field_map, page, peer,
                   tables>>

\* get_related, lines 107-110, once _parse_fields has returned or raised r
FieldsParsed(r) ==
    IF r.err # "none"
    THEN /\ pc' = "error"
         /\ response' = ValidationError(r.err, r.key)
         /\ UNCHANGED field_map
    ELSE /\ pc' = "paginate"
         /\ field_map' = r.field_map
         /\ UNCHANGED response

\* get_related, lines 107-110: the field selection
ParseFieldsStep ==
    /\ pc = "fields"
    /\ FieldsParsed(ParseFields(qp, join_specs.included_models))
    /\ UNCHANGED <<view, qp, queryset, applied_filters, join_specs,
                   ordering_meta, distinct, page, peer, tables>>

\* what the paginator and the query executor may hand back: no paginator
\* and every row, or a first page of one row
PageChoices(model) ==
    LET pks == [i \in 1..Len(Database[model]) |-> Database[model][i].pk]
    IN  {[paginated |-> FALSE, objects |-> pks, count |-> Len(pks)],
         [paginated |-> TRUE, objects |-> SubSeq(pks, 1, 1),
          count |-> Len(pks)]}

\* get_related, lines 112-116: the query is executed, paginated or not
PaginateStep ==
    /\ pc = "paginate"
    /\ \E p \in PageChoices(base_model) : page' = p
    /\ queryset' = [queryset EXCEPT !.evaluated = TRUE]
    /\ pc' = "serialize"
    /\ UNCHANGED <<view, qp, applied_filters, join_specs, ordering_meta,
                   distinct, field_map, response, peer, tables>>

\* the meta object of the response (query_time_ms, a clock reading, left
\* out)
Meta ==
    [applied_filters |-> SerializeFilters(applied_filters),
     applied_joins |-> join_specs.applied_joins,
     selected_fields |->
         BuildSelectedFieldsMeta(join_specs.included_models, field_map),
     ordering |-> ordering_meta,
     distinct |-> distinct,
     warnings |-> <<>>]

\* get_related, lines 118-161: serialize the rows and assemble the response
RespondStep ==
    /\ pc = "serialize"
    /\ LET data == [i \in 1..Len(page.objects) |->
                       SerializeInstance(page.objects[i], base_model,
                                         join_specs.join_tree, field_map)]
       IN  response' =
             [status |-> 200, error |-> "none", param |-> <<>>,
              body |-> <<[key |-> "count",
                          value |-> IF page.paginated THEN page.count
                                    ELSE Len(data)],
                         [key |-> "next",
                          value |-> IF page.paginated
                                       /\ page.count > Len(page.objects)
                                    THEN "url" ELSE "null"],
                         [key |-> "previous", value |-> "null"],
                         [key |-> "results", value |-> data],
                         [key |-> "meta", value |-> Meta]>>]
    /\ pc' = "done"
    /\ UNCHANGED <<view, qp, queryset, applied_filters, join_specs,
                   ordering_meta, distinct, field_map, page, peer, tables>>

Next ==
    \/ ParseFiltersStep
    \/ ParseJoinsStep
    \/ ParseOrderingStep
    \/ ParseFieldsStep
    \/ PaginateStep
    \/ RespondStep

\* ------------------------------------------------------------------------
\* Two get_related calls served concurrently: each call runs on its own
\* viewset instance and thread; the steps of the running call are the
\* actions above, and a switch suspends it and resumes the other call
\* ------------------------------------------------------------------------

\* the local variables of the running call
Locals ==
    [view |-> view, qp |-> qp, pc |-> pc, queryset |-> queryset,
     applied_filters |-> applied_filters, join_specs |-> join_specs,
     ordering_meta |-> ordering_meta, distinct |-> distinct,
     field_map |-> field_map, page |-> page, response |-> response]

\* a call whose join result lives where the other call's does
ResumedSharingJoins(saved, other) ==
    [saved EXCEPT !.join_specs = other.join_specs]

\* what a suspended call finds when it resumes, `other` being the frame of
\* the call that ran meanwhile: every name the method assigns is a local
\* variable and every structure it fills is allocated by the call itself,
\* so it finds its own frame
Resumed(saved, other) == saved

\* the running call takes the frame f
Resume(f) ==
    /\ view' = f.view
    /\ qp' = f.qp
    /\ pc' = f.pc
    /\ queryset' = f.queryset
    /\ applied_filters' = f.applied_filters
    /\ join_specs' = f.join_specs
    /\ ordering_meta' = f.ordering_meta
    /\ distinct' = f.distinct
    /\ field_map' = f.field_map
    /\ page' = f.page
    /\ response' = f.response

\* the running call starts with the frame f
Begin(f) ==
    /\ view = f.view
    /\ qp = f.qp
    /\ pc = f.pc
    /\ queryset = f.queryset
    /\ applied_filters = f.applied_filters
    /\ join_specs = f.join_specs
    /\ ordering_meta = f.ordering_meta
    /\ distinct = f.distinct
    /\ field_map = f.field_map
    /\ page = f.page
    /\ response = f.response

\* the scheduler suspends the running call and resumes the other one
Switch ==
    /\ peer.pc # "none"
    /\ peer' = Locals
    /\ Resume(Resumed(peer, Locals))
    /\ UNCHANGED tables

NextConcurrent ==
    \/ Next
    \/ Switch

\* ------------------------------------------------------------------------
\* The write serializers (serializers.py): a run is is_valid() followed,
\* when there are no errors, by save(). The input is a dict of the fields
\* the client sent; the errors are the keys of serializer.errors
\* ------------------------------------------------------------------------

request_vars ==
    <<view, qp, pc, queryset, applied_filters, join_specs, ordering_meta,
      distinct, field_map, page, response, peer>>

\* no request is being served
Idle == Begin(NoPeer) /\ peer = NoPeer

\* the primary keys of the rows of a model
Pks(model) == {Database[model][i].pk : i \in 1..Len(Database[model])}

\* serializer = Serializer(data=...): no instance
NoInstance == [id |-> "none"]

\* a PrimaryKeyRelatedField over all rows of `model`
PrimaryKeyRelatedFieldErrors(data, partial, name, model, required, nullable) ==
    IF ~DictHas(data, name)
    THEN (IF required /\ ~partial THEN {name} ELSE {})
    ELSE IF DictGet(data, name) = "null"
    THEN (IF nullable THEN {} ELSE {name})
    ELSE IF DictGet(data, name) \notin Pks(model) THEN {name} ELSE {}

\* the field of a PositiveIntegerField: required, and not below zero
IntegerFieldErrors(data, partial, name) ==
    IF ~DictHas(data, name) THEN (IF partial THEN {} ELSE {name})
    ELSE IF DictGet(data, name) < 0 THEN {name} ELSE {}

\* StockSerializer.to_internal_value: the errors of the fields
StockFieldErrors(data, partial) ==
    PrimaryKeyRelatedFieldErrors(data, partial, "product", "product", TRUE,
                                 FALSE) \cup
    PrimaryKeyRelatedFieldErrors(data, partial, "warehouse", "warehouse",
                                 TRUE, FALSE) \cup
    IntegerFieldErrors(data, partial, "qty") \cup
    IntegerFieldErrors(data, partial, "reserved")

\* attrs.get(name, getattr(instance, name, None)) is not None
HasValue(attrs, instance, name) ==
    DictHas(attrs, name) \/ instance.id # "none"

\* attrs.get(name, getattr(instance, name, None))
ValueOf(attrs, instance, name) ==
    IF DictHas(attrs, name) THEN DictGet(attrs, name) ELSE instance[name]

\* a serializer whose Meta.validators is empty: the pair is left to the
\* constraint of the table
UniqueTogetherUnchecked(attrs, instance, rows) == {}

\* the UniqueTogetherValidator on (product, warehouse): the fields an
\* update does not send are those of the instance, and the instance itself
\* is left out of the search
UniqueTogetherErrors(attrs, instance, rows) ==
    IF \E r \in rows :
          /\ r.id # instance.id
          /\ r.product = ValueOf(attrs, instance, "product")
          /\ r.warehouse = ValueOf(attrs, instance, "warehouse")
    THEN {"non_field_errors"} ELSE {}

\* a validate that looks at the fields of the input only
StockValidateInputOnly(attrs, instance) ==
    IF /\ DictHas(attrs, "qty") /\ DictHas(attrs, "reserved")
       /\ DictGet(attrs, "reserved") > DictGet(attrs, "qty")
    THEN {"reserved"} ELSE {}

\* StockSerializer.validate
StockValidate(attrs, instance) ==
    IF /\ HasValue(attrs, instance, "qty")
       /\ HasValue(attrs, instance, "reserved")
       /\ ValueOf(attrs, instance, "reserved") > ValueOf(attrs, instance, "qty")
    THEN {"reserved"} ELSE {}

\* run_validation: the errors of the fields; if there are none, those of
\* the validators; if there are none, those of validate
RunValidation(field_errors, validator_errors, validate_errors) ==
    IF field_errors # {} THEN field_errors
    ELSE IF validator_errors # {} THEN validator_errors
    ELSE validate_errors

\* StockSerializer(instance, data, partial).is_valid(): serializer.errors
StockErrors(data, instance, partial, rows) ==
    RunValidation(StockFieldErrors(data, partial),
                  IF StockFieldErrors(data, partial) # {} THEN {}
                  ELSE UniqueTogetherErrors(data, instance, rows),
                  StockValidate(data, instance))

\* the row save() writes: the validated fields over those of the instance
StockRow(id, attrs, instance) ==
    [id |-> id,
     product |-> ValueOf(attrs, instance, "product"),
     warehouse |-> ValueOf(attrs, instance, "warehouse"),
     qty |-> ValueOf(attrs, instance, "qty"),
     reserved |-> ValueOf(attrs, instance, "reserved")]

\* Stock.Meta.constraints: unique (product, warehouse), reserved <= qty
StockConstraints(row, rows) ==
    /\ row.reserved <= row.qty
    /\ ~\E r \in rows : /\ r.id # row.id
                        /\ r.product = row.product
                        /\ r.warehouse = row.warehouse

\* the serializer run whose errors are `errors`: nothing is written when
\* there are errors or when the database refuses the row
StockRun(data, instance, partial, id, errors) ==
    IF errors # {}
    THEN /\ outcome' = [serializer |-> "stock", instance |-> instance.id,
                        partial |-> partial, data |-> data, errors |-> errors]
         /\ UNCHANGED stocks
    ELSE IF ~StockConstraints(StockRow(id, data, instance), stocks)
    THEN /\ outcome' = [serializer |-> "stock", instance |-> instance.id,
                        partial |-> partial, data |-> data,
                        errors |-> {"IntegrityError"}]
         /\ UNCHANGED stocks
    ELSE /\ outcome' = [serializer |-> "stock", instance |-> instance.id,
                        partial |-> partial, data |-> data, errors |-> {}]
         /\ stocks' = (stocks \ {instance}) \cup {StockRow(id, data, instance)}

MaxQty == 1

\* the primary keys new rows get, in the order they are handed out
StockIds == <<"s1", "s2">>

\* the places of the keys of `ids` that no row of `rows` has yet
FreePlaces(ids, rows) ==
    {i \in 1..Len(ids) : ids[i] \notin {r.id : r \in rows}}

\* the primary key of the next new row
FreshId(ids, rows) ==
    ids[CHOOSE i \in FreePlaces(ids, rows) :
            \A j \in FreePlaces(ids, rows) : i <= j]

\* a field that is sent with one of the values, or not sent
Opt(name, values) ==
    {<<>>} \cup {<<[key |-> name, value |-> v]>> : v \in values}

\* the inputs: the references not sent, or sent for a pair of rows that
\* exist or for a product that does not; each quantity not sent, negative,
\* or up to the maximum
StockPayloads ==
    {ref \o q \o r :
        ref \in {<<>>} \cup
                {<<[key |-> "product", value |-> p],
                   [key |-> "warehouse", value |-> "w1"]>> :
                    p \in Pks("product") \cup {"zz"}},
        q \in Opt("qty", -1..MaxQty),
        r \in Opt("reserved", -1..MaxQty)}

\* POST: a serializer without instance
StockCreate ==
    /\ \E data \in StockPayloads :
         /\ FreePlaces(StockIds, stocks) # {}
         /\ StockRun(data, NoInstance, FALSE, FreshId(StockIds, stocks),
                     StockErrors(data, NoInstance, FALSE, stocks))
    /\ UNCHANGED <<payments, request_vars>>

\* PUT and PATCH: a serializer over a stored row
StockUpdate ==
    /\ \E data \in StockPayloads :
         \E instance \in stocks :
           \E partial \in BOOLEAN :
              StockRun(data, instance, partial, instance.id,
                       StockErrors(data, instance, partial, stocks))
    /\ UNCHANGED <<payments, request_vars>>

NextStock ==
    \/ StockCreate
    \/ StockUpdate

InitStock == Idle /\ NoWrites

SpecStock == InitStock /\ [][NextStock]_vars

\* Payment.Method.choices and Payment.Status.choices
MethodChoices == {"CARD", "TRANSFER", "COD"}
StatusChoices == {"PENDING", "CONFIRMED", "FAILED"}

\* a ChoiceField
ChoiceFieldErrors(data, partial, name, choices, required) ==
    IF ~DictHas(data, name)
    THEN (IF required /\ ~partial THEN {name} ELSE {})
    ELSE IF DictGet(data, name) \notin choices THEN {name} ELSE {}

\* a validate_order that does not know the payment it is updating
ValidateOrderAnyPayment(order, instance, rows) ==
    IF order = "null" THEN {}
    ELSE IF \E r \in rows : r.order = order THEN {"order"}
    ELSE {}

\* PaymentSerializer.validate_order
ValidateOrder(order, instance, rows) ==
    IF order = "null" THEN {}
    ELSE IF instance.id # "none" /\ instance.order = order THEN {}
    ELSE IF \E r \in rows : r.order = order THEN {"order"}
    ELSE {}

\* the field `order`: the related field's own validation, then
\* validate_order on the value it found
OrderFieldErrors(data, instance, field_errors, rows) ==
    IF field_errors # {} THEN field_errors
    ELSE IF ~DictHas(data, "order") THEN {}
    ELSE ValidateOrder(DictGet(data, "order"), instance, rows)

\* PaymentSerializer(instance, data, partial).is_valid(): the errors of
\* all fields together
PaymentErrors(data, instance, partial, rows) ==
    OrderFieldErrors(data, instance,
        PrimaryKeyRelatedFieldErrors(data, partial, "order", "order", FALSE,
                                     TRUE),
        rows) \cup
    ChoiceFieldErrors(data, partial, "method", MethodChoices, TRUE) \cup
    IntegerFieldErrors(data, partial, "amount") \cup
    ChoiceFieldErrors(data, partial, "status", StatusChoices, FALSE)

\* the value save() writes for a field: the validated one, else that of
\* the instance, else the model's default
Written(attrs, instance, name, default) ==
    IF DictHas(attrs, name) THEN DictGet(attrs, name)
    ELSE IF instance.id # "none" THEN instance[name]
    ELSE default

PaymentRow(id, attrs, instance) ==
    [id |-> id,
     order |-> Written(attrs, instance, "order", "null"),
     method |-> Written(attrs, instance, "method", "CARD"),
     amount |-> Written(attrs, instance, "amount", 0),
     status |-> Written(attrs, instance, "status", "PENDING")]

\* Payment.order is a OneToOneField: no two rows with the same order
PaymentConstraints(row, rows) ==
    row.order = "null" \/ ~\E r \in rows : r.id # row.id /\ r.order = row.order

\* the serializer run whose errors are `errors`
PaymentRun(data, instance, partial, id, errors) ==
    IF errors # {}
    THEN /\ outcome' = [serializer |-> "payment", instance |-> instance.id,
                        partial |-> partial, data |-> data, errors |-> errors]
         /\ UNCHANGED payments
    ELSE IF ~PaymentConstraints(PaymentRow(id, data, instance), payments)
    THEN /\ outcome' = [serializer |-> "payment", instance |-> instance.id,
                        partial |-> partial, data |-> data,
                        errors |-> {"IntegrityError"}]
         /\ UNCHANGED payments
    ELSE /\ outcome' = [serializer |-> "payment", instance |-> instance.id,
                        partial |-> partial, data |-> data, errors |-> {}]
         /\ payments' = (payments \ {instance}) \cup
                            {PaymentRow(id, data, instance)}

PaymentIds == <<"y1", "y2">>

\* the amounts sent
AmountChoices == {100, 150}

\* the inputs: the order not sent, null, or one of the orders; the method
\* sent; the amount not sent or one of the amounts; the status sent or not
PaymentPayloads ==
    {o \o <<[key |-> "method", value |-> "CARD"]>> \o a \o s :
        o \in Opt("order", Pks("order") \cup {"null"}),
        a \in Opt("amount", AmountChoices),
        s \in Opt("status", {"CONFIRMED"})}

\* POST: a serializer without instance
PaymentCreate ==
    /\ \E data \in PaymentPayloads :
         /\ FreePlaces(PaymentIds, payments) # {}
         /\ PaymentRun(data, NoInstance, FALSE, FreshId(PaymentIds, payments),
                       PaymentErrors(data, NoInstance, FALSE, payments))
    /\ UNCHANGED <<stocks, request_vars>>

\* PUT and PATCH: a serializer over a stored row
PaymentUpdate ==
    /\ \E data \in PaymentPayloads :
         \E instance \in payments :
           \E partial \in BOOLEAN :
              PaymentRun(data, instance, partial, instance.id,
                         PaymentErrors(data, instance, partial, payments))
    /\ UNCHANGED <<stocks, request_vars>>

NextPayment ==
    \/ PaymentCreate
    \/ PaymentUpdate

InitPayment == Idle /\ NoWrites

SpecPayment == InitPayment /\ [][NextPayment]_vars

\* ------------------------------------------------------------------------
\* The requests that are checked
\* ------------------------------------------------------------------------

MaxJoinEntries == 2
MaxFilterValues == 2
MaxOrderingChunks == 2

Param(key, values) == [key |-> key, values |-> values]

\* the sequences of length 1..n whose first element is of First and whose
\* other elements are of Rest
RECURSIVE SeqsUpTo(_, _, _)
SeqsUpTo(n, First, Rest) ==
    IF n = 0 THEN {}
    ELSE {<<f>> : f \in First} \cup
         {Append(s, r) : s \in SeqsUpTo(n - 1, First, Rest), r \in Rest}

RelationNames(model) ==
    {n \in DOMAIN Models[model] : IsRelation(Models[model][n])}

\* the model a path of relations leads to
RECURSIVE ModelAt(_, _)
ModelAt(model, path) ==
    IF path = <<>> THEN model
    ELSE ModelAt(RelatedModel(GetField(model, Head(path))), Tail(path))

\* a path written with "__" between its segments
Dundered(path) == JoinWith(path, DUNDER)

\* a path written with a leading, a doubled and a trailing separator
Untidy(path) == <<DUNDER>> \o JoinWith(path, DOT) \o <<DOT, DUNDER>>

\* the whitelist the asked paths are drawn from: the view's own, or for
\* the view without one that of the products view
ReferencePaths(v) ==
    IF GetAllowedJoinPaths(v) = {} THEN GetAllowedJoinPaths("products")
    ELSE GetAllowedJoinPaths(v)

\* one whitelisted path of two segments, to write in other styles
StyledPath(v) == CHOOSE w \in ReferencePaths(v) : Len(w) = 2

\* a path of four segments
TooDeepPath(v) == StyledPath(v) \o StyledPath(v)

\* the paths a view is asked to join: the whitelisted ones, their unlisted
\* prefixes, their extensions by one more relation, a path that is too
\* deep, a name that is no field and a name that is no relation
JoinPathChoices(v) ==
    LET W == ReferencePaths(v)
        m == ViewSets[v].model
        Pre == UNION {{SubSeq(w, 1, k) : k \in 1..Len(w)} : w \in W}
        Ext == UNION {{Append(w, <<r>>) : r \in RelationNames(ModelAt(m, w))} :
                        w \in {x \in W : Len(x) \in {1, related_max_join_depth}}}
    IN  W \cup Pre \cup Ext \cup
        {TooDeepPath(v), << <<"nope">> >>, << <<"id">> >>}

JoinEntryChoices(v) ==
    {JoinWith(p, DOT) : p \in JoinPathChoices(v)} \cup
    {Dundered(StyledPath(v)), Untidy(StyledPath(v)), <<DOT>>}

\* the entries that may follow a first one: the styled path in its three
\* writings, a path that is too deep, a name that is no field
FollowUpEntries(v) ==
    {JoinWith(StyledPath(v), DOT), Dundered(StyledPath(v)),
     Untidy(StyledPath(v)), JoinWith(TooDeepPath(v), DOT), <<"nope">>}

\* the join parameter for a list of entries: one value per entry, or one
\* value that lists them between commas and blanks
JoinParams(v) ==
    LET lists == SeqsUpTo(MaxJoinEntries, JoinEntryChoices(v),
                          FollowUpEntries(v))
    IN  {<<>>} \cup
        {<<Param(<<"join">>, es)>> : es \in lists} \cup
        {<<Param(<<"join">>,
                 <<<<SPACE>> \o JoinWith(es, COMMA) \o <<COMMA, SPACE>>>>)>> :
            es \in {x \in lists : Len(x) > 1}}

FilterKey(path) == <<"filter[">> \o path \o <<CLOSE>>
FieldsKey(label) == <<"fields[">> \o label \o <<CLOSE>>

BadFilter == Param(FilterKey(<<"nope">>), <<<<"x">>>>)
GoodFilter == Param(FilterKey(<<"id">>), <<<<UUID_LITERAL>>>>)

\* requests that vary the join parameter, for every view
InitJoins ==
    \E v \in ViewNames :
      \E j \in JoinParams(v) :
        \E f \in {<<>>, <<GoodFilter>>, <<BadFilter>>} :
            Start(v, f \o j)

SpecJoins == InitJoins /\ [][Next]_vars

\* the filter paths asked of a view: attributes of each semantic type, a
\* relation, paths through relations in both writings, paths with an
\* operator suffix, paths with an unknown segment first or later, a scalar
\* followed by another attribute, paths with blanks around, and paths that
\* hold nothing but separators or blanks
FilterPathChoices(v) ==
    IF ViewSets[v].model = "product"
    THEN {<<"name">>, <<"price">>, <<"is_active">>, <<"created_at">>,
          <<"id">>, <<"brand">>, <<"stocks">>,
          <<"brand", DOT, "name">>, <<"brand", DUNDER, "name">>,
          <<"stocks", DOT, "qty">>, <<"price", DOT, "gte">>,
          <<"name", DOT, "in">>, <<"nope">>, <<"brand", DOT, "nope">>,
          <<"nope", DOT, "name">>, <<"name", DOT, "sku">>,
          <<SPACE, "name", SPACE>>, <<>>, <<SPACE>>, <<DOT>>}
    ELSE {<<"qty">>, <<"reserved">>, <<"updated_at">>, <<"product">>,
          <<"product", DOT, "price">>, <<"product", DUNDER, "brand", DOT, "name">>,
          <<"qty", DOT, "gte">>, <<"nope">>, <<"warehouse", DOT, "nope">>,
          <<SPACE>>}

\* the raw values asked: numerals, booleans in several writings, words,
\* an identifier, a date and the empty string
FilterValueChoices ==
    {<<"5">>, <<SPACE, "5", SPACE>>, <<"-", "3">>, <<"1", DOT, "5">>,
     <<"1", "0", "0", DOT, "0", "0">>, <<"0">>, <<"1">>,
     <<"t", "r", "u", "e">>, <<"T", "r", "u", "e">>, <<"T", "R", "U", "E">>,
     <<"f", "a", "l", "s", "e">>, <<SPACE, "F", "A", "L", "S", "E">>,
     <<"y", "e", "s">>, <<"n", "o">>, <<"o", "n">>, <<"O", "F", "F">>,
     <<"t">>, <<"a", "b", "c">>, <<"1", "e", "3">>, <<"n", "a", "n">>,
     <<UUID_LITERAL>>, <<DATE_LITERAL>>, <<>>}

\* the values that may follow a first one under the same key
FurtherValueChoices == {<<"7">>, <<"a", "b", "c">>, <<"y", "e", "s">>}

\* the same path in another writing, so that the key differs and the
\* lookup does not
OtherWriting(path) ==
    IF Replace(path, DOT, DUNDER) # path THEN Replace(path, DOT, DUNDER)
    ELSE <<SPACE>> \o path

\* the keys that may follow a filter key: none, a key that is no filter,
\* the same path in another writing, the path with the suffix "in"
SecondKeyChoices(path) ==
    {<<>>,
     <<Param(<<"page">>, <<<<"1">>>>)>>,
     <<Param(FilterKey(OtherWriting(path)), <<<<"9">>>>)>>,
     <<Param(FilterKey(OtherWriting(path)), <<<<"9">>, <<"8">>>>)>>,
     <<Param(FilterKey(path \o <<DOT, "in">>), <<<<"9">>>>)>>}

\* requests that vary the filter keys and their values
InitFilters ==
    \E v \in {"products", "stocks"} :
      \E path \in FilterPathChoices(v) :
        \E values \in SeqsUpTo(MaxFilterValues, FilterValueChoices,
                               FurtherValueChoices) :
          \E more \in SecondKeyChoices(path) :
              Start(v, <<Param(FilterKey(path), values)>> \o more)

SpecFilters == InitFilters /\ [][Next]_vars

\* the ordering chunks asked of the products view
OrderingChunkChoices ==
    {<<"name">>, <<MINUS, "created_at">>, <<"brand", DOT, "name">>,
     <<MINUS, "brand", DUNDER, "name">>, <<"stocks", DOT, "qty">>,
     <<SPACE, MINUS, "price", SPACE>>, <<"name", DOT, "gte">>,
     <<MINUS, "brand", DOT, "nope">>, <<"name", DOT, "sku">>,
     <<"nope">>, <<MINUS, "nope", DOT, "name">>, <<MINUS>>, <<>>, <<DOT>>}

\* the ordering parameter: absent, or the chunks between commas, or two
\* values of which get() reads the last
OrderingParams ==
    LET lists == SeqsUpTo(MaxOrderingChunks, OrderingChunkChoices,
                          OrderingChunkChoices)
    IN  {<<>>} \cup
        {<<Param(<<"ordering">>, <<JoinWith(cs, COMMA)>>)>> : cs \in lists} \cup
        {<<Param(<<"ordering">>, <<<<"nope">>, c>>)>> :
            c \in OrderingChunkChoices}

\* the distinct parameter: absent or one of some writings
DistinctParams ==
    {<<>>} \cup
    {<<Param(<<"distinct">>, <<d>>)>> :
        d \in {<<"t", "r", "u", "e">>, <<SPACE, "O", "N", SPACE>>, <<"1">>,
               <<"0">>, <<"f", "a", "l", "s", "e">>, <<"t">>}}

\* requests that vary the ordering and distinct parameters
InitOrdering ==
    \E o \in OrderingParams :
      \E d \in DistinctParams :
          Start("products", o \o d)

SpecOrdering == InitOrdering /\ [][Next]_vars

\* requests that combine all kinds of parameters, each well-formed or not
MixedFilters ==
    {<<>>, <<GoodFilter>>, <<BadFilter>>,
     <<Param(FilterKey(<<"name">>), <<<<"a">>, <<"b">>>>)>>}

MixedJoins(v) ==
    {<<>>} \cup
    {<<Param(<<"join">>, <<e>>)>> :
        e \in {JoinWith(StyledPath(v), DOT), JoinWith(TooDeepPath(v), DOT),
               <<"nope">>,
               JoinWith(<<Head(StyledPath(v))>>, DOT) \o <<COMMA>> \o
                   Dundered(StyledPath(v))}}

MixedOrderings ==
    {<<>>} \cup
    {<<Param(<<"ordering">>, <<o>>)>> :
        o \in {<<"id">>, <<MINUS, "id", COMMA, "created_at">>, <<"nope">>,
               <<"id", DOT, "gte">>}}

MixedFields(v) ==
    {<<>>} \cup
    {<<Param(FieldsKey(<<l>>), <<f>>)>> :
        l \in {ViewSets[v].model, "Brand", "customer"},
        f \in {<<"id">>, <<"id", COMMA, SPACE, "nope">>, <<COMMA>>}}

Init ==
    \E v \in {"products", "orders", "base"} :
      \E f \in MixedFilters :
        \E j \in MixedJoins(v) :
          \E o \in MixedOrderings :
            \E d \in {<<>>, <<Param(<<"distinct">>, <<<<"1">>>>)>>} :
              \E s \in MixedFields(v) :
                  Start(v, f \o j \o o \o d \o s)

Spec == Init /\ [][Next]_vars

\* the join parameter of a request that selects fields: absent, one
\* whitelisted path, or the first two whitelisted paths between commas
FieldsJoinParams(v) ==
    LET raws == ViewSets[v].related_allowed_joins
    IN  {<<>>, <<Param(<<"join">>, <<raws[1] \o <<COMMA>> \o raws[2]>>)>>} \cup
        {<<Param(<<"join">>, <<raws[i]>>)>> : i \in 1..Len(raws)}

\* the values of a fields[...] key for a model: one name, two names in the
\* reverse of the declared order, a name twice, a relation, a relation
\* before an attribute, an unknown name alone or after a known one, blanks
\* only, and two values
FieldNameChoices(model) ==
    LET c == ConcreteFields[model]
    IN  {<<<<c[2]>>>>, <<<<c[2], COMMA, SPACE, c[1]>>>>,
         <<<<c[1], COMMA, c[1]>>>>, <<<<c[1], COMMA, "nope">>>>,
         <<<<"nope">>>>, <<<<COMMA, SPACE>>>>, <<<<c[1]>>, <<c[2]>>>>} \cup
        {<<<<r>>>> : r \in RelationNames(model)} \cup
        {<<<<r, COMMA, c[1]>>>> : r \in RelationNames(model)}

\* the ways a model is written in a fields[...] key
LabelWritings(model) ==
    {<<model>>} \cup
    (IF model = "product" THEN {<<SPACE, "Product", SPACE>>} ELSE {}) \cup
    (IF model = "brand" THEN {<<"Brand">>} ELSE {})

\* a second fields[...] key: none, or the root model written with a blank
\* in front, with a known or an unknown name
SecondFieldsKeys(v) ==
    {<<>>,
     <<Param(FieldsKey(<<SPACE, ViewSets[v].model>>), <<<<"id">>>>)>>,
     <<Param(FieldsKey(<<SPACE, ViewSets[v].model>>), <<<<"nope">>>>)>>}

\* the fields[...] keys of a request: none, one key for a model in one of
\* its writings, a key without label, a key for no model, each followed or
\* not by a second key
FieldsParams(v) ==
    LET first == {<<>>,
                  <<Param(FieldsKey(<<>>), <<<<"nope">>>>)>>,
                  <<Param(FieldsKey(<<"nope">>), <<<<"id">>>>)>>} \cup
                 UNION {{<<Param(FieldsKey(l), n)>> :
                           l \in LabelWritings(m), n \in FieldNameChoices(m)} :
                        m \in ModelNames}
    IN  {f \o s : f \in first, s \in SecondFieldsKeys(v)}

\* requests that vary the join parameter and the field selection
InitFields ==
    \E v \in {"products", "orders", "payments"} :
      \E j \in FieldsJoinParams(v) :
        \E s \in FieldsParams(v) :
            Start(v, j \o s)

SpecFields == InitFields /\ [][Next]_vars

\* the requests that are served two at a time: well-formed ones that
\* differ in every parameter, and ones refused at each stage
ConcurrentRequests ==
    {[view |-> "products", qp |-> <<>>],
     [view |-> "products",
      qp |-> <<Param(FilterKey(<<"name">>), <<<<"a">>, <<"b">>>>),
               Param(<<"join">>, <<<<"brand">>>>),
               Param(FieldsKey(<<"product">>), <<<<"name", COMMA, "id">>>>)>>],
     [view |-> "products",
      qp |-> <<Param(<<"join">>, <<<<"stocks", DOT, "warehouse">>>>),
               Param(<<"ordering">>, <<<<MINUS, "name">>>>),
               Param(<<"distinct">>, <<<<"1">>>>)>>],
     [view |-> "products", qp |-> <<BadFilter>>],
     [view |-> "products", qp |-> <<Param(<<"join">>, <<<<"nope">>>>)>>],
     [view |-> "products",
      qp |-> <<Param(<<"join">>, <<<<"brand", COMMA, "stocks">>>>),
               Param(FieldsKey(<<"brand">>), <<<<"nope">>>>)>>],
     [view |-> "orders",
      qp |-> <<Param(<<"join">>, <<<<"payment">>>>),
               Param(FieldsKey(<<"order">>), <<<<"id">>>>)>>],
     [view |-> "orders",
      qp |-> <<GoodFilter,
               Param(<<"join">>, <<<<"items", DOT, "product">>>>),
               Param(<<"ordering">>, <<<<"nope">>>>)>>]}

\* two requests arrive; one call runs first, the other waits
InitConcurrent ==
    \E a \in ConcurrentRequests :
      \E b \in ConcurrentRequests :
          /\ Begin(NewFrame(a.view, a.qp))
          /\ peer = NewFrame(b.view, b.qp)
          /\ NoWrites

SpecConcurrent == InitConcurrent /\ [][NextConcurrent]_vars

\* ------------------------------------------------------------------------
\* Properties of the join planner (checked under SpecJoins)
\* ------------------------------------------------------------------------

\* the request was refused while its filters were parsed
FilterRefused ==
    pc = "error" /\ response.error \in {"InvalidFilterPath", "EmptyLookup"}

\* _parse_joins has returned, or raised
JoinStageActed == pc \notin {"filters", "joins"} /\ ~FilterRefused

\* _parse_joins has returned
JoinsPlanned == pc \in {"ordering", "fields", "paginate", "serialize", "done"}

\* the whitelist as views.py writes it
Whitelist == ViewSets[view].related_allowed_joins
Listed(dotted) == \E i \in 1..Len(Whitelist) : Whitelist[i] = dotted

\* the join entries of the request that name a path, as segment tuples
AskedPaths ==
    LET entries == JoinEntries(GetList(qp, <<"join">>))
    IN  SelectSeq([i \in 1..Len(entries) |-> PathSegments(entries[i])],
                  LAMBDA segs : segs # <<>>)

AskedEntries == JoinEntries(GetList(qp, <<"join">>))

\* the meta object of a response
MetaOf(r) == DictGet(r.body, "meta")

StrictPrefix(a, b) == Len(a) < Len(b) /\ SubSeq(b, 1, Len(a)) = a

\* C1 as the specification states it: a request whose first join path has
\* more segments than the maximum depth is refused with JoinTooDeep,
\* whatever the whitelist is
C1_TooDeepWhateverWhitelist ==
    (JoinStageActed /\ AskedPaths # <<>>
        /\ Len(AskedPaths[1]) > related_max_join_depth)
    => (pc = "error" /\ response.error = "JoinTooDeep")

\* C1, amended: a request with a join path of more segments than the
\* maximum depth is always refused with a validation error; the error is
\* JoinsDisabled when the resource has no whitelist, and JoinTooDeep when it
\* has one and the path is the first one asked, whether or not the whitelist
\* holds that path
C1_TooDeepRefused ==
    (JoinStageActed
        /\ \E i \in 1..Len(AskedPaths) :
              Len(AskedPaths[i]) > related_max_join_depth)
    => /\ pc = "error"
       /\ response.status = 400
       /\ response.body = <<>>
       /\ Whitelist = <<>> => response.error = "JoinsDisabled"
       /\ (Whitelist # <<>> /\ Len(AskedPaths[1]) > related_max_join_depth)
             => response.error = "JoinTooDeep"

\* C1's case: a whitelisted path of four segments, asked first, refused
C1_Witness ==
    /\ pc = "error"
    /\ response.error = "JoinTooDeep"
    /\ AskedPaths # <<>>
    /\ Len(AskedPaths[1]) > related_max_join_depth
    /\ Listed(JoinWith(AskedPaths[1], DOT))

\* whether every segment names a relation, each on the model the one
\* before leads to
RECURSIVE RelationChain(_, _)
RelationChain(model, segments) ==
    \/ segments = <<>>
    \/ /\ Len(Head(segments)) = 1
       /\ Head(segments)[1] \in DOMAIN Models[model]
       /\ Models[model][Head(segments)[1]].kind # "scalar"
       /\ RelationChain(Models[model][Head(segments)[1]].to, Tail(segments))

\* the first path asked is not whitelisted but is a prefix or an extension
\* of a whitelisted path
FirstPathNearWhitelist ==
    /\ AskedPaths # <<>>
    /\ ~Listed(JoinWith(AskedPaths[1], DOT))
    /\ \E i \in 1..Len(Whitelist) :
          \/ StrictPrefix(AskedPaths[1], Split(Whitelist[i], DOT))
          \/ StrictPrefix(Split(Whitelist[i], DOT), AskedPaths[1])

\* what C2 says of every successful response: each path of applied_joins
\* is an entry of the whitelist, has at most the maximum depth of segments,
\* and each segment is a relation
AppliedJoinsListed ==
    (pc = "done" /\ response.status = 200)
    => \A i \in 1..Len(MetaOf(response).applied_joins) :
          LET path == MetaOf(response).applied_joins[i]
          IN  /\ Listed(path)
              /\ Len(Split(path, DOT)) <= related_max_join_depth
              /\ RelationChain(ViewSets[view].model, Split(path, DOT))

\* C2 as the specification states it: besides AppliedJoinsListed, a path
\* that is only a prefix or an extension of a whitelisted path is refused
\* with JoinNotAllowed
C2_NearWhitelistNotAllowed ==
    /\ AppliedJoinsListed
    /\ (JoinStageActed /\ FirstPathNearWhitelist)
       => (pc = "error" /\ response.error = "JoinNotAllowed")

\* C2, amended: besides AppliedJoinsListed, a path that is only a prefix or
\* an extension of a whitelisted path is refused, with JoinNotAllowed when
\* it has at most the maximum depth of segments and with JoinTooDeep when it
\* has more
C2_NearWhitelistRefused ==
    /\ AppliedJoinsListed
    /\ (JoinStageActed /\ FirstPathNearWhitelist)
       => /\ pc = "error"
          /\ response.status = 400
          /\ response.error =
                IF Len(AskedPaths[1]) > related_max_join_depth
                THEN "JoinTooDeep" ELSE "JoinNotAllowed"

\* C2's case: an unlisted prefix of a whitelisted path, refused
C2_Witness ==
    /\ pc = "error"
    /\ response.error = "JoinNotAllowed"
    /\ FirstPathNearWhitelist
    /\ \E i \in 1..Len(Whitelist) :
          StrictPrefix(AskedPaths[1], Split(Whitelist[i], DOT))

\* C3: a resource with an empty whitelist refuses a request with at least
\* one non-empty join entry with JoinsDisabled; a request without the join
\* parameter is served, with applied_joins = []
C3_JoinsDisabled ==
    /\ (JoinStageActed /\ Whitelist = <<>> /\ AskedEntries # <<>>)
       => /\ pc = "error"
          /\ response.status = 400
          /\ response.error = "JoinsDisabled"
    /\ (JoinStageActed /\ ~HasKey(qp, <<"join">>))
       => /\ pc # "error"
          /\ join_specs.applied_joins = <<>>
          /\ queryset.select_related = <<>>
          /\ queryset.prefetch_related = <<>>
          /\ pc = "done" => /\ response.status = 200
                            /\ MetaOf(response).applied_joins = <<>>

\* C3's case: a join asked of the resource without a whitelist, refused
C3_Witness ==
    /\ Whitelist = <<>>
    /\ AskedEntries # <<>>
    /\ pc = "error"
    /\ response.error = "JoinsDisabled"

\* whether a path has a to-many hop: a reverse ForeignKey (the schema has
\* no many-to-many field)
RECURSIVE HasToManyHop(_, _)
HasToManyHop(model, segments) ==
    /\ segments # <<>>
    /\ \/ Models[model][Head(segments)[1]].kind = "rev_fk"
       \/ HasToManyHop(Models[model][Head(segments)[1]].to, Tail(segments))

Occurrences(xs, x) == Cardinality({i \in 1..Len(xs) : xs[i] = x})

\* C4: an accepted path is fetched with prefetch_related iff it has a
\* to-many hop anywhere, with select_related iff all its hops are to-one,
\* and is in exactly one of the two lists; the lists hold nothing else
C4_StrategyByCardinality ==
    JoinsPlanned
    => /\ \A i \in 1..Len(join_specs.applied_joins) :
            LET segments == Split(join_specs.applied_joins[i], DOT)
                lookup == JoinWith(segments, DUNDER)
                many == HasToManyHop(ViewSets[view].model, segments)
            IN  /\ Occurrences(queryset.prefetch_related, lookup) =
                      IF many THEN 1 ELSE 0
                /\ Occurrences(queryset.select_related, lookup) =
                      IF many THEN 0 ELSE 1
       /\ \A l \in SeqToSet(queryset.prefetch_related \o
                            queryset.select_related) :
            \E i \in 1..Len(join_specs.applied_joins) :
                l = Replace(join_specs.applied_joins[i], DOT, DUNDER)

\* C4's case: a path whose first hop is to-many and whose last is to-one
\* goes to prefetch_related, beside a path fetched with select_related
C4_Witness ==
    /\ JoinsPlanned
    /\ queryset.select_related # <<>>
    /\ \E i \in 1..Len(join_specs.applied_joins) :
          LET segments == Split(join_specs.applied_joins[i], DOT)
          IN  /\ Len(segments) > 1
              /\ HasToManyHop(ViewSets[view].model, segments)
              /\ ~HasToManyHop(
                     ModelAt(ViewSets[view].model,
                             SubSeq(segments, 1, Len(segments) - 1)),
                     <<segments[Len(segments)]>>)
              /\ JoinWith(segments, DUNDER) \in
                    SeqToSet(queryset.prefetch_related)

\* ------------------------------------------------------------------------
\* Properties of the filter parser (checked under SpecFilters)
\* ------------------------------------------------------------------------

\* _parse_filters has returned and its result was applied
FiltersApplied == pc \in {"joins", "ordering", "fields", "paginate",
                          "serialize", "done"}

\* the places of the request's filter keys whose path is not blank
FilterKeyPlaces ==
    {i \in 1..Len(qp) : /\ IsBracketKey(qp[i].key, "filter[")
                        /\ FilterLookup(qp[i].key) # <<>>}

\* the segments of the path of the key at place i
KeySegments(i) == NonEmptyParts(Split(FilterLookup(qp[i].key), DUNDER))

\* what the path of the key at place i resolves to
Resolved(i) == ResolveLookup(ViewSets[view].model, FilterLookup(qp[i].key))

\* the dict key under which the key at place i is stored
TermKey(i) ==
    IF Len(qp[i].values) > 1 /\ ~Resolved(i).has_operator
    THEN FilterLookup(qp[i].key) \o <<DUNDER, "in">>
    ELSE FilterLookup(qp[i].key)

\* a later key of the request is stored under the same dict key
Replaced(i) == \E j \in FilterKeyPlaces : j > i /\ TermKey(j) = TermKey(i)

\* the semantic type of the terminal attribute of the key at place i (of
\* the related primary key, for a relation)
TerminalType(i) ==
    IF Resolved(i).field.kind = "scalar" THEN Resolved(i).field.type
    ELSE Models[Resolved(i).field.to]["id"].type

\* the class of the Python value of each semantic type
PythonClass ==
    [char |-> "str", int |-> "int", decimal |-> "decimal", bool |-> "bool",
     datetime |-> "datetime", uuid |-> "uuid"]

\* the values of the key at place i, coerced
Coerced(i) ==
    [k \in 1..Len(qp[i].values) |->
        CoerceFilterValue(qp[i].values[k], Resolved(i).field)]

\* what a key with several values and no operator suffix leaves behind: a
\* membership term over all its coerced values, in order, echoed by the
\* metadata
MembershipTerm(i) ==
    /\ DictHas(queryset.filters, FilterLookup(qp[i].key) \o <<DUNDER, "in">>)
    /\ DictGet(queryset.filters, FilterLookup(qp[i].key) \o <<DUNDER, "in">>)
          = PyList(Coerced(i))
    /\ Len(Coerced(i)) = Len(qp[i].values)
    /\ pc = "done" =>
          DictGet(MetaOf(response).applied_filters,
                  FilterLookup(qp[i].key) \o <<DUNDER, "in">>)
             = PyList([k \in 1..Len(qp[i].values) |->
                          SerializeValue(Coerced(i)[k])])

\* C6 as the specification states it: every filter key with N > 1 values
\* and no operator suffix yields a membership term over all N coerced
\* values, echoed in order
C6_MembershipForEveryKey ==
    FiltersApplied
    => \A i \in FilterKeyPlaces :
          (Len(qp[i].values) > 1 /\ ~Resolved(i).has_operator)
          => MembershipTerm(i)

\* C6, amended: a filter key with N > 1 values and no operator suffix
\* yields a membership term over all N coerced values, echoed in order,
\* unless a later key of the request is stored under the same lookup key
\* and replaces it
C6_MembershipUnlessReplaced ==
    FiltersApplied
    => \A i \in FilterKeyPlaces :
          (Len(qp[i].values) > 1 /\ ~Resolved(i).has_operator
              /\ ~Replaced(i))
          => MembershipTerm(i)

\* C6's case: a served request whose key had two values, of which one at
\* least was coerced to a number
C6_Witness ==
    /\ pc = "done"
    /\ \E i \in FilterKeyPlaces :
          /\ Len(qp[i].values) > 1
          /\ ~Resolved(i).has_operator
          /\ MembershipTerm(i)
          /\ \E k \in 1..Len(qp[i].values) : Coerced(i)[k].t = "int"

\* the value stored for the key at place i
Stored(i) == DictGet(queryset.filters, TermKey(i))

\* C7 as the specification states it: a key with a valid path and exactly
\* one value stores one value that is no list and has the semantic type of
\* the terminal attribute (read for the keys that no later key replaces)
C7_SingleValueOfTerminalType ==
    FiltersApplied
    => \A i \in FilterKeyPlaces :
          (Len(qp[i].values) = 1 /\ ~Replaced(i))
          => /\ DictHas(queryset.filters, FilterLookup(qp[i].key))
             /\ DictGet(queryset.filters, FilterLookup(qp[i].key)).t
                   = PythonClass[TerminalType(i)]

\* C7, amended: a key with a valid path and exactly one value stores,
\* unless a later key replaces it, one value that is no list; the value has
\* the semantic type of the terminal attribute when that type's parser
\* accepts the raw string ("5" for an integer attribute gives 5), and is
\* otherwise a boolean, an integer, a float or the raw string; the
\* metadata echoes the value as the serializer writes it
C7_SingleValueCoerced ==
    FiltersApplied
    => \A i \in FilterKeyPlaces :
          (Len(qp[i].values) = 1 /\ ~Replaced(i))
          => /\ DictHas(queryset.filters, FilterLookup(qp[i].key))
             /\ Stored(i).t # "list"
             /\ IF ToPython(TerminalType(i), qp[i].values[1]).ok
                THEN Stored(i).t = PythonClass[TerminalType(i)]
                ELSE Stored(i).t \in {"bool", "int", "float", "str"}
             /\ (TerminalType(i) = "int" /\ qp[i].values[1] = <<"5">>)
                   => Stored(i) = PyInt(5)
             /\ pc = "done" =>
                   DictGet(MetaOf(response).applied_filters, TermKey(i))
                      = SerializeValue(Stored(i))

\* C7's case: "5" given for an integer attribute, served
C7_Witness ==
    /\ pc = "done"
    /\ \E i \in FilterKeyPlaces :
          /\ qp[i].values = <<<<"5">>>>
          /\ TerminalType(i) = "int"
          /\ DictGet(MetaOf(response).applied_filters, TermKey(i)) = PyInt(5)

\* the values stored for the key at place i, as a sequence
StoredValues(i) == IF Stored(i).t = "list" THEN Stored(i).v ELSE <<Stored(i)>>

\* the fallback the specification describes, for a raw string the type's
\* parser rejected
SpecifiedFallback(raw, got) ==
    IF Lower(Strip(raw)) \in
          {<<"t", "r", "u", "e">>, <<"f", "a", "l", "s", "e">>,
           <<"y", "e", "s">>, <<"n", "o">>, <<"o", "n">>, <<"o", "f", "f">>}
    THEN got.t = "bool"
    ELSE IF IsIntLiteral(raw) THEN got.t = "int"
    ELSE IF IsFloatLiteral(raw) THEN got.t = "float"
    ELSE got = PyStr(raw)

\* the fallback of the code
ActualFallback(raw, got) ==
    IF Lower(Strip(raw)) = <<"t", "r", "u", "e">> THEN got = PyBool(TRUE)
    ELSE IF Lower(Strip(raw)) = <<"f", "a", "l", "s", "e">>
    THEN got = PyBool(FALSE)
    ELSE IF IsIntLiteral(raw) THEN got = PyInt(IntOf(raw))
    ELSE IF IsFloatLiteral(raw) THEN got.t = "float"
    ELSE got = PyStr(raw)

\* the places and value indices whose raw string the type's parser rejects
RejectedValues ==
    UNION {{<<i, k>> : k \in {n \in 1..Len(qp[i].values) :
                                ~ToPython(TerminalType(i),
                                          qp[i].values[n]).ok}} :
           i \in {j \in FilterKeyPlaces : ~Replaced(j)}}

\* a request is refused by the filter parser only for a path: one without
\* segments, or one whose first segment is no field of the root model
RefusedForPathOnly ==
    FilterRefused
    => \E i \in FilterKeyPlaces :
          \/ KeySegments(i) = <<>>
          \/ ~FieldExists(ViewSets[view].model, KeySegments(i)[1])

\* C8 as the specification states it: a value the type's parser rejects
\* raises nothing and becomes a boolean when it is true / false / yes / no
\* / on / off in any case, else an integer, else a float, else stays the
\* raw string
C8_FallbackSixLiterals ==
    /\ RefusedForPathOnly
    /\ FiltersApplied
       => \A p \in RejectedValues :
             SpecifiedFallback(qp[p[1]].values[p[2]], StoredValues(p[1])[p[2]])

\* C8, amended: a value the type's parser rejects raises nothing and
\* becomes a boolean when it is true / false in any case, blanks around
\* allowed, else an integer, else a float, else stays the raw string; yes /
\* no / on / off stay strings
C8_FallbackTwoLiterals ==
    /\ RefusedForPathOnly
    /\ FiltersApplied
       => \A p \in RejectedValues :
             ActualFallback(qp[p[1]].values[p[2]], StoredValues(p[1])[p[2]])

\* C8's case: "yes" given for an attribute whose parser rejects it, stored
\* as the string
C8_Witness ==
    /\ FiltersApplied
    /\ \E p \in RejectedValues :
          /\ qp[p[1]].values[p[2]] = <<"y", "e", "s">>
          /\ TerminalType(p[1]) = "bool"
          /\ StoredValues(p[1])[p[2]] = PyStr(<<"y", "e", "s">>)

\* some operator suffixes of the query layer
LookupOperators ==
    {"exact", "iexact", "contains", "icontains", "in", "gt", "gte", "lt",
     "lte", "startswith", "endswith", "range", "isnull"}

\* the place of the first segment that is no field of the model reached
\* so far, counted from `index`; 0 when there is none
RECURSIVE FirstUnknownSegment(_, _, _)
FirstUnknownSegment(model, segments, index) ==
    IF index > Len(segments) THEN 0
    ELSE IF \/ Len(segments[index]) # 1
            \/ segments[index][1] \notin DOMAIN Models[model]
    THEN index
    ELSE FirstUnknownSegment(
            IF Models[model][segments[index][1]].kind = "scalar" THEN model
            ELSE Models[model][segments[index][1]].to,
            segments, index + 1)

\* the path at place i has an unknown segment that is not an operator
\* suffix closing the path of an attribute
UnknownSegmentIn(i) ==
    LET at == FirstUnknownSegment(ViewSets[view].model, KeySegments(i), 1)
    IN  /\ at > 0
        /\ ~(/\ at > 1
             /\ at = Len(KeySegments(i))
             /\ KeySegments(i)[at][1] \in LookupOperators)

\* the first filter key of the request whose path is not blank
FirstFilterKey == CHOOSE i \in FilterKeyPlaces :
                     \A j \in FilterKeyPlaces : i <= j

\* C9 as the specification states it: a filter path with an unknown
\* segment at any position is refused with InvalidFilterPath
C9_UnknownSegmentAnywhere ==
    (pc # "filters" /\ FilterKeyPlaces # {}
        /\ KeySegments(FirstFilterKey) # <<>>
        /\ UnknownSegmentIn(FirstFilterKey))
    => (pc = "error" /\ response.error = "InvalidFilterPath")

\* the filter keys whose path the code refuses
RefusedPlaces ==
    {i \in FilterKeyPlaces :
        \/ KeySegments(i) = <<>>
        \/ ~FieldExists(ViewSets[view].model, KeySegments(i)[1])}

FirstRefused == CHOOSE i \in RefusedPlaces : \A j \in RefusedPlaces : i <= j

\* C9, amended: a request is refused by the filter parser exactly when the
\* path of a filter key has no segment (only separators) or its first
\* segment is no field of the root model, with InvalidFilterPath in the
\* second case, naming the first such key; an unknown segment further on is
\* taken with all that follows for an operator suffix, and a key whose path
\* is empty or blank is skipped
C9_FirstSegmentDecides ==
    pc # "filters"
    => /\ FilterRefused <=> RefusedPlaces # {}
       /\ RefusedPlaces # {}
          => /\ response.status = 400
             /\ response.param = qp[FirstRefused].key
             /\ response.error =
                   IF KeySegments(FirstRefused) = <<>> THEN "EmptyLookup"
                   ELSE "InvalidFilterPath"
       /\ RefusedPlaces = {}
          => /\ SeqToSet(DictKeys(queryset.filters)) =
                   {TermKey(i) : i \in FilterKeyPlaces}
             /\ \A i \in FilterKeyPlaces :
                   LET at == FirstUnknownSegment(ViewSets[view].model,
                                                 KeySegments(i), 1)
                   IN  /\ Resolved(i).has_operator <=> at > 0
                       /\ at > 0 =>
                            Resolved(i).operator =
                               JoinWith(SubSeq(KeySegments(i), at,
                                               Len(KeySegments(i))), DUNDER)

\* C9's case: a path whose unknown segment is not the first and is no
\* operator of the query layer, accepted
C9_Witness ==
    /\ FiltersApplied
    /\ \E i \in FilterKeyPlaces :
          /\ UnknownSegmentIn(i)
          /\ DictHas(queryset.filters, TermKey(i))

\* ------------------------------------------------------------------------
\* Properties of the ordering parser (checked under SpecOrdering) and of
\* the request as a whole (checked under Spec)
\* ------------------------------------------------------------------------

\* the segments of an entry of order_by, its "-" left out
OrderBySegments(entry) ==
    NonEmptyParts(Split(IF entry # <<>> /\ entry[1] = MINUS THEN Tail(entry)
                        ELSE entry, DUNDER))

\* C10 as the specification states it: an ordering chunk is accepted only
\* if its whole path resolves to an attribute, so that no entry with an
\* operator-like suffix ever reaches order_by
C10_OrderByAttributesOnly ==
    \A k \in 1..Len(queryset.order_by) :
        /\ OrderBySegments(queryset.order_by[k]) # <<>>
        /\ FirstUnknownSegment(ViewSets[view].model,
                               OrderBySegments(queryset.order_by[k]), 1) = 0

\* the lookups of the chunks of the ordering parameter that are not blank
AskedOrderings ==
    LET chunks == Split(Get(qp, <<"ordering">>, <<>>), COMMA)
    IN  SelectSeq([k \in 1..Len(chunks) |-> OrderingLookup(Strip(chunks[k]))],
                  LAMBDA l : l # <<>>)

\* the parameters of the request as the specification wants them
FiltersValid == RefusedPlaces = {}

JoinsValid ==
    \/ AskedEntries = <<>>
    \/ /\ Whitelist # <<>>
       /\ \A k \in 1..Len(AskedPaths) :
             /\ Listed(JoinWith(AskedPaths[k], DOT))
             /\ Len(AskedPaths[k]) <= related_max_join_depth
             /\ RelationChain(ViewSets[view].model, AskedPaths[k])

OrderingValid ==
    \A k \in 1..Len(AskedOrderings) :
        /\ NonEmptyParts(Split(AskedOrderings[k], DUNDER)) # <<>>
        /\ FirstUnknownSegment(
              ViewSets[view].model,
              NonEmptyParts(Split(AskedOrderings[k], DUNDER)), 1) = 0

FieldsValid ==
    \A i \in 1..Len(qp) :
        (/\ IsBracketKey(qp[i].key, "fields[")
         /\ Len(FieldsLabel(qp[i].key)) = 1
         /\ FieldsLabel(qp[i].key)[1] \in SeqToSet(join_specs.included_models))
        => \A k \in 1..Len(FieldItems(qp[i].values)) :
              /\ Len(FieldItems(qp[i].values)[k]) = 1
              /\ FieldItems(qp[i].values)[k][1] \in
                    DOMAIN Models[FieldsLabel(qp[i].key)[1]]

\* a refused request carries no results and no metadata, and its query
\* was never executed
RefusedBeforeExecution ==
    pc = "error" => /\ response.status = 400
                    /\ response.body = <<>>
                    /\ ~queryset.evaluated
                    /\ page = NoPage

\* C5 as the specification states it: a request with an invalid filter,
\* join, ordering or fields parameter is refused with a validation error
\* before the query is executed or paginated, and results are returned only
\* when all four parsing stages succeeded
C5_InvalidParameterRefused ==
    /\ RefusedBeforeExecution
    /\ (pc \in {"paginate", "serialize", "done"} \/ queryset.evaluated
           \/ response.status = 200)
       => (FiltersValid /\ JoinsValid /\ OrderingValid /\ FieldsValid)

\* ------------------------------------------------------------------------
\* Properties of the field selection and of the serialized tree (checked
\* under SpecFields)
\* ------------------------------------------------------------------------

\* the results of a response
ResultsOf(r) == DictGet(r.body, "results")

\* the nodes of a serialized tree: each dict found by following the keys
\* of the join tree from a root, with its model and its join subtree
RECURSIVE NodesUnder(_, _, _)
RECURSIVE NodesAt(_, _, _)
NodesAt(value, model, tree) ==
    CASE value.t = "dict" -> NodesUnder(value.v, model, tree)
      [] value.t = "list" ->
            UNION {NodesAt(value.v[i], model, tree) : i \in 1..Len(value.v)}
      [] OTHER -> {}

NodesUnder(node, model, tree) ==
    {[node |-> node, model |-> model, tree |-> tree]} \cup
    UNION {IF DictHas(node, tree[i].key)
           THEN NodesAt(DictGet(node, tree[i].key),
                        RelatedModel(GetField(model, tree[i].key)),
                        tree[i].sub)
           ELSE {} : i \in 1..Len(tree)}

\* the nodes of the response of a served request
ResultNodes ==
    IF pc # "done" THEN {}
    ELSE UNION {NodesUnder(ResultsOf(response)[i], base_model,
                           join_specs.join_tree) :
                  i \in 1..Len(ResultsOf(response))}

\* a sequence without its repetitions, first occurrences kept
RECURSIVE Distinct(_)
Distinct(s) ==
    IF s = <<>> THEN <<>>
    ELSE LET d == Distinct(SubSeq(s, 1, Len(s) - 1))
         IN  IF s[Len(s)] \in SeqToSet(d) THEN d ELSE Append(d, s[Len(s)])

\* the type has a field selection
Selected(model) == DictHas(field_map, model)

\* the names of model._meta.fields
DefaultNames(model) ==
    [i \in 1..Len(ConcreteFields[model]) |-> <<ConcreteFields[model][i]>>]

\* the keys of the join subtree of a node
RelationKeys(n) == [i \in 1..Len(n.tree) |-> n.tree[i].key]

\* C11: every serialized instance of a type with a field selection has as
\* keys exactly the selected names, in the listed order, followed by the
\* relation keys of its join subtree that are not among them; the instances
\* of every other type have the names of all their concrete fields in the
\* place of the selected names
C11_SelectedKeysOnly ==
    \A n \in ResultNodes :
        DictKeys(n.node) =
            Distinct((IF Selected(n.model) THEN DictGet(field_map, n.model)
                      ELSE DefaultNames(n.model)) \o RelationKeys(n))

\* a served request with a selection for a type that has a node with
\* relation keys, and with a node of a type without selection
C11_Witness ==
    /\ pc = "done"
    /\ \E n \in ResultNodes :
          /\ Selected(n.model)
          /\ Len(DictGet(field_map, n.model)) = 2
          /\ n.tree # <<>>
    /\ \E n \in ResultNodes : ~Selected(n.model)

\* _parse_fields has returned, or raised
FieldsStageActed ==
    \/ pc \in {"paginate", "serialize", "done"}
    \/ pc = "error" /\ response.error = "UnknownField"

\* the places of the fields[...] keys in the request
FieldsKeyPlaces == {i \in 1..Len(qp) : IsBracketKey(qp[i].key, "fields[")}

\* the type a fields[...] key names: what stands between the brackets,
\* without the blanks around it and in lower case
NamedType(i) == Lower(Strip(SubSeq(qp[i].key, 2, Len(qp[i].key) - 1)))

\* the types the request touches
TouchedTypes == SeqToSet(join_specs.included_models)

NamesTouchedType(i) ==
    Len(NamedType(i)) = 1 /\ NamedType(i)[1] \in TouchedTypes

\* the names a fields[...] key lists
ListedNames(i) == FieldItems(qp[i].values)

\* one listed name is neither an attribute nor a relation of the type
ListsUnknownName(i) ==
    \E k \in 1..Len(ListedNames(i)) :
        \/ Len(ListedNames(i)[k]) # 1
        \/ ListedNames(i)[k][1] \notin DOMAIN Models[NamedType(i)[1]]

\* C12: the request is refused with UnknownField exactly when one of its
\* fields[...] keys names a touched type, whatever the case of its letters,
\* and lists a name that the type does not declare; the field map has
\* entries for touched types only, so a key that names an untouched type
\* adds none and never refuses the request
C12_UnknownFieldOfTouchedType ==
    FieldsStageActed =>
        /\ (pc = "error") <=>
              \E i \in FieldsKeyPlaces :
                  NamesTouchedType(i) /\ ListsUnknownName(i)
        /\ (pc = "error") =>
              /\ response.param \in {qp[i].key : i \in FieldsKeyPlaces}
              /\ field_map = <<>>
        /\ \A k \in 1..Len(field_map) : field_map[k].key \in TouchedTypes

\* a request whose first fields[...] key names an untouched type and lists
\* an unknown name, and which is refused for its second key
C12_Witness ==
    /\ pc = "error" /\ response.error = "UnknownField"
    /\ \E i, j \in FieldsKeyPlaces :
          /\ i < j
          /\ ~NamesTouchedType(i) /\ Len(NamedType(i)) = 1
          /\ NamedType(i)[1] \in ModelNames
          /\ <<"nope">> \in SeqToSet(ListedNames(i))
          /\ response.param = qp[j].key
          /\ NamesTouchedType(j) /\ ListsUnknownName(j)

\* the declared names of a model by kind
ScalarNames(model) ==
    {a \in DOMAIN Models[model] : Models[model][a].kind = "scalar"}
ForwardRelationNames(model) ==
    {a \in DOMAIN Models[model] : Models[model][a].kind \in {"fk", "o2o"}}
ReverseRelationNames(model) ==
    {a \in DOMAIN Models[model] : Models[model][a].kind \in {"rev_fk", "rev_o2o"}}

\* the name is a key of the join subtree of the node
IsRelationKey(n, a) == \E i \in 1..Len(n.tree) : n.tree[i].key = <<a>>

\* the field selection of the node's type lists the name
SelectionLists(n, a) ==
    Selected(n.model) /\ <<a>> \in SeqToSet(DictGet(field_map, n.model))

ShowsRow(node, pk) ==
    DictHas(node, <<"id">>) => DictGet(node, <<"id">>) = PyUuid(<<pk>>)

\* the rows a relation of the row pk leads to, in the order of the table
RelatedRows(model, pk, a) ==
    LET f == Models[model][a]
    IN  IF f.kind \in {"fk", "o2o"}
        THEN (IF Row(model, pk)[a] = "null" THEN <<>> ELSE <<Row(model, pk)[a]>>)
        ELSE LET rows == SelectSeq(Database[f.to], LAMBDA r : r[f.via] = pk)
             IN  [i \in 1..Len(rows) |-> rows[i].pk]

ToMany(model, a) == Models[model][a].kind = "rev_fk"

\* the node holds, under every key of the join tree, what the relation of
\* the row pk leads to: a list with one serialized instance per related row
\* for a to-many relation, null for a to-one relation without related row,
\* the serialized related instance otherwise, each of them holding in turn
\* what the subtree of the key asks for
RECURSIVE HoldsRelations(_, _, _, _)
HoldsRelated(value, model, a, rows, sub) ==
    IF ToMany(model, a)
    THEN /\ value.t = "list"
         /\ Len(value.v) = Len(rows)
         /\ \A i \in 1..Len(rows) :
               /\ value.v[i].t = "dict"
               /\ HoldsRelations(value.v[i].v, rows[i], Models[model][a].to, sub)
    ELSE IF rows = <<>> THEN value = PyNone
    ELSE /\ value.t = "dict"
         /\ HoldsRelations(value.v, rows[1], Models[model][a].to, sub)

HoldsRelations(node, pk, model, tree) ==
    /\ ShowsRow(node, pk)
    /\ \A i \in 1..Len(tree) :
          /\ DictHas(node, tree[i].key)
          /\ HoldsRelated(DictGet(node, tree[i].key), model, tree[i].key[1],
                          RelatedRows(model, pk, tree[i].key[1]), tree[i].sub)

\* C14: in the response of a served request every node holds, under every
\* key of its join subtree, a list of the serialized related instances when
\* the relation is to-many, null when it is to-one and there is no related
\* instance, and otherwise the serialized related instance, each serialized
\* with the subtree of that key
C14_RelationValues ==
    pc = "done" =>
        /\ Len(ResultsOf(response)) = Len(page.objects)
        /\ \A i \in 1..Len(page.objects) :
              HoldsRelations(ResultsOf(response)[i], page.objects[i],
                             base_model, join_specs.join_tree)

\* a response with a to-one relation that is null in one node and, in
\* another, a nested instance that holds a non-empty list under a key of
\* its own subtree
C14_Witness ==
    /\ pc = "done"
    /\ \E n \in ResultNodes :
          \E i \in 1..Len(n.tree) :
              /\ ~ToMany(n.model, n.tree[i].key[1])
              /\ DictGet(n.node, n.tree[i].key) = PyNone
    /\ \E n \in ResultNodes :
          \E i \in 1..Len(n.tree) :
              /\ ~ToMany(n.model, n.tree[i].key[1])
              /\ n.tree[i].sub # <<>>
              /\ DictGet(n.node, n.tree[i].key).t = "dict"
              /\ \E j \in 1..Len(n.tree[i].sub) :
                    LET inner == DictGet(DictGet(n.node, n.tree[i].key).v,
                                         n.tree[i].sub[j].key)
                    IN  inner.t = "list" /\ Len(inner.v) = 2

\* the types a join path passes through from the root type
TypesAlong(model, path) ==
    {ModelAt(model, SubSeq(path, 1, k)) : k \in 1..Len(path)}

\* the root type and the related type of every hop of every join path of
\* the request
RootAndJoinedTypes ==
    {base_model} \cup
    UNION {TypesAlong(base_model, AskedPaths[k]) : k \in 1..Len(AskedPaths)}

\* the fields[...] keys of the request that name the type and list a name
GivenFor(type) ==
    {i \in FieldsKeyPlaces : NamedType(i) = <<type>> /\ ListedNames(i) # <<>>}

\* the list the client gave for a type (that of the last key, if several
\* name the type), or the sentinel
ClientList(type) ==
    IF GivenFor(type) = {} THEN <<(<<"*">>)>>
    ELSE ListedNames(CHOOSE i \in GivenFor(type) :
                        \A j \in GivenFor(type) : j <= i)

\* C15: in a served request the touched types are the root type and the
\* related type of every hop of every accepted join path, and
\* meta.selected_fields has exactly one entry per touched type, with the
\* list the client gave for the type, or the sentinel "*" when none was
\* given
C15_SelectedFieldsPerTouchedType ==
    pc = "done" =>
        /\ TouchedTypes = RootAndJoinedTypes
        /\ Len(MetaOf(response).selected_fields) = Cardinality(RootAndJoinedTypes)
        /\ {MetaOf(response).selected_fields[i].key :
              i \in 1..Len(MetaOf(response).selected_fields)} = RootAndJoinedTypes
        /\ \A i \in 1..Len(MetaOf(response).selected_fields) :
              MetaOf(response).selected_fields[i].value =
                  ClientList(MetaOf(response).selected_fields[i].key)

\* a served request that joins a path of three hops and selects fields of
\* one touched type only
C15_Witness ==
    /\ pc = "done"
    /\ \E k \in 1..Len(AskedPaths) : Len(AskedPaths[k]) = 3
    /\ Cardinality(RootAndJoinedTypes) = 4
    /\ \E t \in RootAndJoinedTypes : GivenFor(t) # {}
    /\ \E t \in RootAndJoinedTypes : GivenFor(t) = {}

\* ------------------------------------------------------------------------
\* Properties of the ordering and distinct parameters (checked under
\* SpecOrdering)
\* ------------------------------------------------------------------------

\* _parse_ordering has returned
OrderingStagePassed == pc \in {"fields", "paginate", "serialize", "done"}

\* the chunks of the ordering parameter (of the value that get() reads)
\* that are not empty once the blanks around them are removed
SortChunks ==
    LET chunks == Split(Get(qp, <<"ordering">>, <<>>), COMMA)
    IN  SelectSeq([k \in 1..Len(chunks) |-> Strip(chunks[k])],
                  LAMBDA c : c # <<>>)

StartsWithMinus(c) == c[1] = MINUS

\* the path of a chunk: the chunk without its leading "-" and without the
\* blanks around what is left
PathOf(c) == Strip(IF StartsWithMinus(c) THEN Tail(c) ELSE c)

SignOf(c) == IF StartsWithMinus(c) THEN <<MINUS>> ELSE <<>>

\* the sort term of a chunk and its echo in dot notation
SortTerm(c) == SignOf(c) \o Replace(PathOf(c), DOT, DUNDER)
SortEcho(c) == SignOf(c) \o Replace(Replace(PathOf(c), DOT, DUNDER), DUNDER, DOT)

\* the chunks that have a path
PathChunks == SelectSeq(SortChunks, LAMBDA c : PathOf(c) # <<>>)

\* C16 as the specification states it: one sort term per non-empty chunk,
\* in order, descending exactly for the chunks that start with "-", and
\* the same terms echoed in dot notation
C16_TermPerNonEmptyChunk ==
    OrderingStagePassed =>
        /\ queryset.order_by =
              [k \in 1..Len(SortChunks) |-> SortTerm(SortChunks[k])]
        /\ ordering_meta =
              [k \in 1..Len(SortChunks) |-> SortEcho(SortChunks[k])]

\* C16, amended: one sort term per chunk that still has a path once its
\* leading "-" and the blanks are removed, in order, descending exactly
\* for the chunks that start with "-"; a chunk that is only "-" yields no
\* term; meta.ordering echoes the same terms in dot notation with the sign
\* kept
C16_TermPerPathChunk ==
    /\ OrderingStagePassed =>
          /\ queryset.order_by =
                [k \in 1..Len(PathChunks) |-> SortTerm(PathChunks[k])]
          /\ ordering_meta =
                [k \in 1..Len(PathChunks) |-> SortEcho(PathChunks[k])]
    /\ pc = "done" =>
          MetaOf(response).ordering =
              [k \in 1..Len(PathChunks) |-> SortEcho(PathChunks[k])]

\* a served request whose ordering has a chunk that is only "-" and a
\* descending chunk with a path through a relation
C16_Witness ==
    /\ pc = "done"
    /\ Len(SortChunks) = 2
    /\ SortChunks[1] = <<MINUS>>
    /\ queryset.order_by = << <<MINUS, "brand", DUNDER, "name">> >>
    /\ MetaOf(response).ordering = << <<MINUS, "brand", DOT, "name">> >>

\* the value of the distinct parameter, its blanks removed, in lower case
DistinctValue == Lower(Strip(Get(qp, <<"distinct">>, <<>>)))

\* the flag as the specification defines it
DistinctFlag ==
    /\ \E i \in 1..Len(qp) : qp[i].key = <<"distinct">>
    /\ \/ DistinctValue = <<"1">>
       \/ DistinctValue = <<"t", "r", "u", "e">>
       \/ DistinctValue = <<"y", "e", "s">>
       \/ DistinctValue = <<"o", "n">>

\* C17: once the ordering stage has passed, the distinct flag is true
\* exactly when the parameter is present and its trimmed, lower-cased
\* value is one of 1, true, yes, on; the query is deduplicated exactly when
\* the flag is true, and meta.distinct of the response equals the flag
C17_DistinctFlag ==
    /\ OrderingStagePassed =>
          /\ distinct = DistinctFlag
          /\ queryset.distinct = DistinctFlag
    /\ ~OrderingStagePassed => ~queryset.distinct
    /\ pc = "done" => MetaOf(response).distinct = DistinctFlag

\* a served request whose distinct value is written with blanks and
\* capitals, and whose query was deduplicated
C17_Witness ==
    /\ pc = "done"
    /\ Get(qp, <<"distinct">>, <<>>) = <<SPACE, "O", "N", SPACE>>
    /\ queryset.distinct
    /\ MetaOf(response).distinct

\* ------------------------------------------------------------------------
\* Properties of requests served concurrently (checked under
\* SpecConcurrent)
\* ------------------------------------------------------------------------

\* what a request produces when it is served alone, computed from the
\* request: the result of each parsing stage
AloneFilters(f) == ParseFilters(f.qp, ViewSets[f.view].model)
AloneJoins(f) == ParseJoins(f.qp, f.view)
AloneOrdering(f) == ParseOrdering(f.qp, ViewSets[f.view].model)
AloneFields(f) == ParseFields(f.qp, AloneJoins(f).included_models)

\* the body of the response of a request served alone with the page p
AloneBody(f, p) ==
    LET data == [i \in 1..Len(p.objects) |->
                    SerializeInstance(p.objects[i], ViewSets[f.view].model,
                                      AloneJoins(f).join_tree,
                                      AloneFields(f).field_map)]
    IN  <<[key |-> "count",
           value |-> IF p.paginated THEN p.count ELSE Len(data)],
          [key |-> "next",
           value |-> IF p.paginated /\ p.count > Len(p.objects)
                     THEN "url" ELSE "null"],
          [key |-> "previous", value |-> "null"],
          [key |-> "results", value |-> data],
          [key |-> "meta",
           value |-> [applied_filters |->
                          SerializeFilters(AloneFilters(f).applied),
                      applied_joins |-> AloneJoins(f).applied_joins,
                      selected_fields |->
                          BuildSelectedFieldsMeta(
                              AloneJoins(f).included_models,
                              AloneFields(f).field_map),
                      ordering |-> AloneOrdering(f).ordering_meta,
                      distinct |-> ParseDistinct(f.qp),
                      warnings |-> <<>>]]>>

\* the response of a request served alone with the page p
AloneResponse(f, p) ==
    IF AloneFilters(f).err # "none"
    THEN ValidationError(AloneFilters(f).err, AloneFilters(f).key)
    ELSE IF AloneJoins(f).err # "none"
    THEN ValidationError(AloneJoins(f).err, AloneJoins(f).entry)
    ELSE IF AloneOrdering(f).err # "none"
    THEN ValidationError(AloneOrdering(f).err, AloneOrdering(f).chunk)
    ELSE IF AloneFields(f).err # "none"
    THEN ValidationError(AloneFields(f).err, AloneFields(f).key)
    ELSE [status |-> 200, error |-> "none", param |-> <<>>,
          body |-> AloneBody(f, p)]

\* the stages a call has behind it
Past(f, stage) ==
    CASE stage = "filters" ->
            f.pc \in {"joins", "ordering", "fields", "paginate", "serialize",
                      "done"}
      [] stage = "joins" ->
            f.pc \in {"ordering", "fields", "paginate", "serialize", "done"}
      [] stage = "fields" -> f.pc \in {"paginate", "serialize", "done"}

\* the frame holds what its request produces alone: filter terms, join
\* tree, field map and response
AsAlone(f) ==
    /\ Past(f, "filters") =>
          /\ f.applied_filters = AloneFilters(f).applied
          /\ f.queryset.filters = AloneFilters(f).filters
    /\ Past(f, "joins") =>
          /\ f.join_specs.join_tree = AloneJoins(f).join_tree
          /\ f.join_specs = AloneJoins(f)
    /\ Past(f, "fields") => f.field_map = AloneFields(f).field_map
    /\ f.pc \in {"done", "error"} => f.response = AloneResponse(f, f.page)
    /\ f.pc \notin {"done", "error"} => f.response = NoResponse

InstanceOf(o, rows) ==
    IF o.instance = "none" THEN NoInstance
    ELSE CHOOSE r \in rows : r.id = o.instance

\* the run has a resulting value for the field: the input sends it, or
\* there is an instance to take it from
Results(o, name) == DictHas(o.data, name) \/ o.instance # "none"

\* the resulting value of the field
Resulting(o, rows, name) ==
    IF DictHas(o.data, name) THEN DictGet(o.data, name)
    ELSE InstanceOf(o, rows)[name]

\* the resulting reserved quantity exceeds the resulting quantity
ReservedExceedsQty(o, rows) ==
    /\ Results(o, "qty") /\ Results(o, "reserved")
    /\ Resulting(o, rows, "reserved") > Resulting(o, rows, "qty")

\* nothing else is wrong with the input of a stock run: every field is
\* sent unless the run is partial, the quantities sent are not negative,
\* the references sent exist, and no other row has the resulting pair
StockInputOtherwiseValid(o, rows) ==
    /\ \A name \in {"product", "warehouse", "qty", "reserved"} :
          o.partial \/ DictHas(o.data, name)
    /\ \A name \in {"qty", "reserved"} :
          DictHas(o.data, name) => DictGet(o.data, name) >= 0
    /\ DictHas(o.data, "product") =>
          DictGet(o.data, "product") \in {"p1", "p2"}
    /\ DictHas(o.data, "warehouse") => DictGet(o.data, "warehouse") = "w1"
    /\ ~\E r \in rows :
          /\ r.id # o.instance
          /\ r.product = Resulting(o, rows, "product")
          /\ r.warehouse = Resulting(o, rows, "warehouse")

\* what C19 asks of one run of StockSerializer
StockRunGuarded ==
    /\ ReservedExceedsQty(outcome', stocks) =>
          /\ outcome'.errors # {}
          /\ stocks' = stocks
          /\ StockInputOtherwiseValid(outcome', stocks) =>
                outcome'.errors = {"reserved"}
    /\ outcome'.errors = {} =>
          \E r \in stocks' :
              /\ r.qty = Resulting(outcome', stocks, "qty")
              /\ r.reserved = Resulting(outcome', stocks, "reserved")
              /\ stocks' \ {r} = stocks \ {InstanceOf(outcome', stocks)}

\* C19: after any sequence of creates and of full or partial updates
\* through StockSerializer, every stored stock has reserved <= qty; a run
\* whose resulting reserved (the one sent, or else the instance's) exceeds
\* its resulting qty is rejected and stores nothing, with the error on
\* 'reserved' when nothing else is wrong with the input; an accepted run
\* stores the resulting values
C19_ReservedWithinQty ==
    /\ [](\A r \in stocks : r.reserved <= r.qty)
    /\ [][StockRunGuarded]_vars

\* a partial update that sends only a quantity below the reserved quantity
\* of its instance has been rejected with the error on 'reserved'
C19_Witness ==
    /\ outcome.serializer = "stock"
    /\ outcome.partial
    /\ DictKeys(outcome.data) = <<"qty">>
    /\ outcome.errors = {"reserved"}
    /\ \E r \in stocks :
          /\ r.id = outcome.instance
          /\ r.reserved > DictGet(outcome.data, "qty")
          /\ r.reserved <= r.qty

\* the input of the run names an order that a payment other than the
\* run's instance already has
NamesTakenOrder(o, rows) ==
    /\ DictHas(o.data, "order")
    /\ DictGet(o.data, "order") # "null"
    /\ \E r \in rows : r.id # o.instance /\ r.order = DictGet(o.data, "order")

\* the run updates a payment, names the order that payment already has,
\* and sends an amount and a status
KeepsOwnOrder(o, rows) ==
    /\ o.instance # "none"
    /\ DictHas(o.data, "order")
    /\ DictGet(o.data, "order") # "null"
    /\ DictGet(o.data, "order") = InstanceOf(o, rows).order
    /\ DictHas(o.data, "amount") /\ DictHas(o.data, "status")

\* what C20 asks of one run of PaymentSerializer
PaymentRunGuarded ==
    /\ NamesTakenOrder(outcome', payments) =>
          /\ "order" \in outcome'.errors
          /\ payments' = payments
    /\ KeepsOwnOrder(outcome', payments) =>
          /\ outcome'.errors = {}
          /\ \E r \in payments' :
                /\ r.id = outcome'.instance
                /\ r.order = DictGet(outcome'.data, "order")
                /\ r.amount = DictGet(outcome'.data, "amount")
                /\ r.status = DictGet(outcome'.data, "status")
                /\ payments' \ {r} = payments \ {InstanceOf(outcome', payments)}

\* C20: after any sequence of creates and updates through
\* PaymentSerializer no order has more than one payment; a run whose input
\* names an order that another payment already has is rejected with an
\* error on 'order' and stores nothing; a run that updates a payment and
\* names that payment's own order is accepted and stores the amount and the
\* status it sends
C20_OnePaymentPerOrder ==
    /\ [](\A a, b \in payments :
              (a.order = b.order /\ a.order # "null") => a = b)
    /\ [][PaymentRunGuarded]_vars

\* a payment has been updated with its own order, a new amount and a new
\* status, while another order has a payment too
C20_Witness ==
    /\ outcome.serializer = "payment"
    /\ outcome.instance # "none"
    /\ outcome.errors = {}
    /\ DictHas(outcome.data, "order")
    /\ \E r \in payments :
          /\ r.id = outcome.instance
          /\ r.order # "null"
          /\ r.order = DictGet(outcome.data, "order")
          /\ r.amount = 150 /\ r.status = "CONFIRMED"
    /\ \E a, b \in payments :
          a.order # "null" /\ b.order # "null" /\ a.order # b.order

\* the resulting (product, warehouse) pair of the run is the pair of a
\* stored row other than the run's instance
PairTaken(o, rows) ==
    /\ Results(o, "product") /\ Results(o, "warehouse")
    /\ \E r \in rows :
          /\ r.id # o.instance
          /\ r.product = Resulting(o, rows, "product")
          /\ r.warehouse = Resulting(o, rows, "warehouse")

\* every field of the input of a stock run is valid by itself: it is sent
\* unless the run is partial, the quantities sent are not negative and the
\* references sent exist
StockFieldsValid(o) ==
    /\ \A name \in {"product", "warehouse", "qty", "reserved"} :
          o.partial \/ DictHas(o.data, name)
    /\ \A name \in {"qty", "reserved"} :
          DictHas(o.data, name) => DictGet(o.data, name) >= 0
    /\ DictHas(o.data, "product") =>
          DictGet(o.data, "product") \in {"p1", "p2"}
    /\ DictHas(o.data, "warehouse") => DictGet(o.data, "warehouse") = "w1"

\* what C21 asks of one run of StockSerializer
StockPairGuarded ==
    /\ PairTaken(outcome', stocks) =>
          /\ outcome'.errors # {}
          /\ stocks' = stocks
          /\ StockFieldsValid(outcome') =>
                outcome'.errors = {"non_field_errors"}
    /\ (outcome'.errors = {} /\ outcome'.instance = "none") =>
          \E r \in stocks' :
              /\ r.id \notin {s.id : s \in stocks}
              /\ r.product = DictGet(outcome'.data, "product")
              /\ r.warehouse = DictGet(outcome'.data, "warehouse")
              /\ stocks' = stocks \cup {r}

\* C21: after any sequence of creates and updates through StockSerializer
\* no two stored stocks have the same (product, warehouse) pair; a run
\* whose resulting pair is that of another stored stock (a create whose
\* pair already exists, in particular) is rejected and stores nothing,
\* with the error under non_field_errors when every field of the input is
\* valid by itself; an accepted create stores one new row with its pair
C21_UniquePair ==
    /\ [](\A a, b \in stocks :
            (a.product = b.product /\ a.warehouse = b.warehouse) => a = b)
    /\ [][StockPairGuarded]_vars

\* a create whose quantities are in order has been rejected under
\* non_field_errors because a stored stock has its pair
C21_Witness ==
    /\ outcome.serializer = "stock"
    /\ outcome.instance = "none"
    /\ outcome.errors = {"non_field_errors"}
    /\ DictHas(outcome.data, "qty") /\ DictHas(outcome.data, "reserved")
    /\ DictGet(outcome.data, "reserved") <= DictGet(outcome.data, "qty")
    /\ \E r \in stocks :
          /\ r.product = DictGet(outcome.data, "product")
          /\ r.warehouse = DictGet(outcome.data, "warehouse")

\* ------------------------------------------------------------------------
\* More properties of the join planner (checked under SpecJoins)
\* ------------------------------------------------------------------------

\* the paths the request asks for, dot-joined, in the order of the join
\* values and of the entries between commas
AskedDotted == [i \in 1..Len(AskedPaths) |-> JoinWith(AskedPaths[i], DOT)]

\* the places where a path is asked for the first time
FirstSeenPlaces ==
    {i \in 1..Len(AskedDotted) : \A j \in 1..(i - 1) : AskedDotted[j] # AskedDotted[i]}

\* the list holds the paths asked, each once, in first-seen order
InFirstSeenOrder(list) ==
    /\ Len(list) = Cardinality(FirstSeenPlaces)
    /\ \A i \in FirstSeenPlaces :
          list[Cardinality({j \in FirstSeenPlaces : j < i}) + 1] =
              AskedDotted[i]

\* the entries of the request that name a path, as they are written
PathEntries ==
    SelectSeq(AskedEntries, LAMBDA e : PathSegments(e) # <<>>)

\* C22: once the joins of a request are accepted, applied_joins (and with
\* it meta.applied_joins of the response) is the list of the distinct
\* paths asked, dot-joined, each exactly once, in first-seen order across
\* the join values and the entries between commas; entries that differ in
\* separator or in empty segments only are one path, and each path is once
\* in the strategy lists taken together
C22_AppliedJoinsFirstSeen ==
    /\ JoinsPlanned =>
          /\ InFirstSeenOrder(join_specs.applied_joins)
          /\ \A i \in 1..Len(AskedPaths) :
                Occurrences(queryset.select_related \o
                            queryset.prefetch_related,
                            JoinWith(AskedPaths[i], DUNDER)) = 1
          /\ Len(queryset.select_related \o queryset.prefetch_related) =
                Cardinality(FirstSeenPlaces)
    /\ (pc = "done" /\ response.status = 200) =>
          InFirstSeenOrder(MetaOf(response).applied_joins)

\* two entries written differently (separator, empty segments) that name
\* one path have been accepted, after another path or alone, and the
\* response lists fewer paths than entries were given
C22_Witness ==
    /\ pc = "done" /\ response.status = 200
    /\ \E i, j \in 1..Len(PathEntries) :
          /\ i < j
          /\ PathEntries[i] # PathEntries[j]
          /\ PathSegments(PathEntries[i]) = PathSegments(PathEntries[j])
    /\ MetaOf(response).applied_joins # <<>>
    /\ Len(MetaOf(response).applied_joins) < Len(PathEntries)

\* the root-to-node key paths of a join tree
RECURSIVE TreePaths(_)
TreePaths(tree) ==
    UNION {{<<tree[i].key>>} \cup
           {<<tree[i].key>> \o p : p \in TreePaths(tree[i].sub)} :
             i \in 1..Len(tree)}

\* the number of nodes of a join tree
RECURSIVE TreeNodes(_)
TreeNodes(tree) ==
    IF tree = <<>> THEN 0
    ELSE 1 + TreeNodes(Head(tree).sub) + TreeNodes(Tail(tree))

\* the non-empty prefixes of the paths the request asks for
AskedPrefixes ==
    UNION {{SubSeq(AskedPaths[i], 1, k) : k \in 1..Len(AskedPaths[i])} :
             i \in 1..Len(AskedPaths)}

\* the largest number of a set of naturals, 0 for the empty set
Largest(S) == IF S = {} THEN 0 ELSE CHOOSE m \in S : \A x \in S : x <= m

\* how deep objects are nested inside a serialized value
RECURSIVE Nesting(_)
NestingInside(d) == Largest({Nesting(d[i].value) : i \in 1..Len(d)})

Nesting(value) ==
    CASE value.t = "dict" -> 1 + NestingInside(value.v)
      [] value.t = "list" ->
            Largest({Nesting(value.v[i]) : i \in 1..Len(value.v)})
      [] OTHER -> 0

\* the nesting depth of a join tree
TreeDepth(tree) == Largest({Len(p) : p \in TreePaths(tree)})

\* C23: once the joins of a request are accepted, the root-to-node key
\* paths of the join tree are exactly the non-empty prefixes of the paths
\* asked, each the path of one node (which depends on the set of paths
\* only, not on the order of the entries); so the tree is at most
\* related_max_join_depth deep, and in the response no object is nested
\* deeper inside a result than the join tree is deep
C23_JoinTreeIsPrefixes ==
    /\ JoinsPlanned =>
          /\ TreePaths(join_specs.join_tree) = AskedPrefixes
          /\ TreeNodes(join_specs.join_tree) = Cardinality(AskedPrefixes)
          /\ TreeDepth(join_specs.join_tree) <= related_max_join_depth
    /\ (pc = "done" /\ response.status = 200) =>
          \A i \in 1..Len(ResultsOf(response)) :
              NestingInside(ResultsOf(response)[i]) <=
                  TreeDepth(join_specs.join_tree)

\* a request that asks for a path of maximum depth and then for a shorter
\* path with the same head has been served, with a result nested as deep
\* as the maximum
C23_Witness ==
    /\ pc = "done" /\ response.status = 200
    /\ Len(AskedPaths) = 2
    /\ Len(AskedPaths[1]) = related_max_join_depth
    /\ Len(AskedPaths[2]) < related_max_join_depth
    /\ Head(AskedPaths[1]) = Head(AskedPaths[2])
    /\ \E i \in 1..Len(ResultsOf(response)) :
          NestingInside(ResultsOf(response)[i]) = related_max_join_depth

\* ------------------------------------------------------------------------
\* More properties of the filter parser (checked under SpecFilters)
\* ------------------------------------------------------------------------

\* the predicate value the key at place i produces: the list of its
\* coerced values for a membership test, else its one coerced value
Produced(i) ==
    IF Len(qp[i].values) = 1 THEN Coerced(i)[1] ELSE PyList(Coerced(i))

\* the value the response echoes for the key at place i
Echoed(i) ==
    IF Len(qp[i].values) = 1 THEN SerializeValue(Coerced(i)[1])
    ELSE PyList([k \in 1..Len(qp[i].values) |->
                    SerializeValue(Coerced(i)[k])])

\* the predicate of the key at place i is what the query was given and
\* what the metadata records under the key's lookup
AppliedAndRecorded(i) ==
    /\ DictHas(queryset.filters, TermKey(i))
    /\ DictGet(queryset.filters, TermKey(i)) = Produced(i)
    /\ DictHas(applied_filters, TermKey(i))
    /\ DictGet(applied_filters, TermKey(i)) = Produced(i)
    /\ pc = "done" =>
          /\ DictHas(MetaOf(response).applied_filters, TermKey(i))
          /\ DictGet(MetaOf(response).applied_filters, TermKey(i)) = Echoed(i)

\* C24 as the specification states it: every filter key with a path has
\* its predicate applied and recorded, the recorded entries are the
\* predicates given to the query, and there is one entry per filter key of
\* the request, keys that differ in separator only included
C24_EntryPerFilterKey ==
    FiltersApplied
    => /\ \A i \in FilterKeyPlaces : AppliedAndRecorded(i)
       /\ applied_filters = queryset.filters
       /\ Len(applied_filters) = Cardinality(FilterKeyPlaces)

\* C24, amended: the recorded entries are the predicates given to the
\* query, one per lookup under which the keys of the request are stored;
\* every filter key with a path has its predicate applied and recorded
\* unless a later key of the request is stored under the same lookup
\* (another writing of the path, or the path with "in" after a key with
\* several values), in which case the later key's predicate is the one
\* applied and recorded
C24_EntryPerLookup ==
    FiltersApplied
    => /\ \A i \in FilterKeyPlaces : ~Replaced(i) => AppliedAndRecorded(i)
       /\ applied_filters = queryset.filters
       /\ Len(applied_filters) =
             Cardinality({TermKey(i) : i \in FilterKeyPlaces})
       /\ \A k \in 1..Len(applied_filters) :
             \E i \in FilterKeyPlaces : applied_filters[k].key = TermKey(i)
       /\ pc = "done" =>
             DictKeys(MetaOf(response).applied_filters) =
                 DictKeys(applied_filters)

\* a request with one path written with "." and then with "__" has been
\* served: one predicate, that of the second key, is applied and recorded
C24_Witness ==
    /\ pc = "done"
    /\ \E i, j \in FilterKeyPlaces :
          /\ i < j
          /\ qp[i].key # qp[j].key
          /\ Replace(qp[i].key, DOT, DUNDER) = qp[j].key
          /\ TermKey(i) = TermKey(j)
          /\ AppliedAndRecorded(j)
          /\ Produced(i) # Produced(j)
    /\ Len(applied_filters) = 1
    /\ Cardinality(FilterKeyPlaces) = 2

====
